---------------------------- MODULE Spec2Model ----------------------------
(***************************************************************************)
(* One instance of a chart component of the charts package (AreaChart,     *)
(* BarChart, PieChart, RadarChart, RadialChart, SparklineChart) as a state *)
(* machine: its props, its React state (animationProgress, hover state,    *)
(* hidden series), the frame callbacks and timers it has registered with   *)
(* the browser, and the events that drive it.                              *)
(*                                                                         *)
(* JavaScript numbers are modelled as exact rationals extended with NaN    *)
(* and the two infinities (records [k, n, d]); rounding error and the sign *)
(* of zero are not modelled.                                               *)
(***************************************************************************)
EXTENDS Integers, Sequences, FiniteSets, TLC

VARIABLES
    chart,              \* which component this instance is
    variant,            \* its variant prop
    yKeys,              \* Area/Bar: the series indices named by the yKey prop
    data,               \* the data prop
    animate,            \* the animate prop
    legendPosition,     \* the legendPosition prop
    legendInteractive,  \* the legendInteractive prop
    legendSize,         \* laid-out extent of a top or left legend, margin included
    mounted,            \* the instance is mounted
    animationProgress,  \* useState: animationProgress
    hiddenSeries,       \* useState: hiddenSeries (PieChart: hiddenSlices)
    crosshair,          \* useState: crosshair (AreaChart)
    tooltip,            \* useState: tooltip
    hoveredBarIndex,    \* useState: hoveredBarIndex (BarChart)
    hoveredIndex,       \* useState: hoveredIndex (PieChart), Null when none
    hoveredPoint,       \* useState: hoveredPoint (RadarChart), Null when none
    rafQueue,           \* frame callbacks registered for the next frame
    frameQueue,         \* callbacks of the frame being run, in order
    timer,              \* Bar/Sparkline: a setTimeout is pending
    now,                \* timestamp of the last frame
    pointer,            \* the last pointer event: kind and position in the svg
    reveal,             \* number of reveals started (effect runs)
    lastWrite,          \* last value passed to setAnimationProgress in this reveal
    sawZero,            \* animationProgress was 0 during this reveal
    settled,            \* this reveal began with the previous one complete
    layout,             \* ChartTooltip: the rects and window sizes its effect measures
    position,           \* ChartTooltip: useState position
    hiddenItems,        \* ChartLegend: useState hiddenItems
    isOpen,             \* MultiSelect, DateTimePicker: useState isOpen
    internalValue,      \* MultiSelect: useState internalValue
    highlightedIndex,   \* MultiSelect: useState highlightedIndex, counted from 0
    maxSelections,      \* MultiSelect: the maxSelections prop
    onChangeCalls,      \* MultiSelect: how often the onChange prop was called
    type,               \* DateTimePicker: the type prop
    minDate,            \* DateTimePicker: the minDate prop
    maxDate,            \* DateTimePicker: the maxDate prop
    viewDate,           \* DateTimePicker: useState viewDate, its year and month
    viewMode,           \* DateTimePicker: useState viewMode
    selectedDate,       \* DateTimePicker: useState selectedDate, Null when none
    reported            \* DateTimePicker: the last date passed to onChange, Null when none

vars == << chart, variant, yKeys, data, animate, legendPosition,
           legendInteractive, legendSize, mounted,
           animationProgress, hiddenSeries, crosshair, tooltip,
           hoveredBarIndex, hoveredIndex, hoveredPoint, rafQueue,
           frameQueue, timer, now, pointer, reveal, lastWrite, sawZero,
           settled, layout, position, hiddenItems, isOpen, internalValue,
           highlightedIndex, maxSelections, onChangeCalls, type, minDate,
           maxDate, viewDate, viewMode, selectedDate, reported >>

\* the state of ChartTooltip
tipVars == << layout, position >>

\* the props of the chart, and what no handler of the chart writes
\* the state of MultiSelect
selectVars == << isOpen, internalValue, highlightedIndex, maxSelections, onChangeCalls >>

\* no MultiSelect in the tree
NoSelect ==
    /\ isOpen = FALSE
    /\ internalValue = << >>
    /\ highlightedIndex = 0 - 1
    /\ maxSelections = 0
    /\ onChangeCalls = 0

\* the state of DateTimePicker, isOpen left out
pickerVars == << type, minDate, maxDate, viewDate, viewMode, selectedDate, reported >>

\* null or undefined where a Date may stand
NoDate == [k |-> "undef"]

\* no DateTimePicker in the tree
NoPicker ==
    /\ type = "date"
    /\ minDate = NoDate
    /\ maxDate = NoDate
    /\ viewDate = [year |-> 0, month |-> 0]
    /\ viewMode = "days"
    /\ selectedDate = NoDate
    /\ reported = NoDate

propVars == << chart, variant, yKeys, legendPosition, legendInteractive,
               legendSize, tipVars, hiddenItems, selectVars, pickerVars >>

hoverVars == << crosshair, tooltip, hoveredBarIndex, hoveredIndex,
                hoveredPoint, pointer >>

-----------------------------------------------------------------------------
(* Bounds of the model *)

MaxPoints == 3       \* longest data array
MaxValue == 2        \* largest data value
MaxReveals == 3      \* effect runs (mount, data and animate changes) per instance
MaxFrames == 6       \* frames delivered per instance
FrameStep == 400     \* gap between two frames, in ms

MaxTime == MaxFrames * FrameStep

-----------------------------------------------------------------------------
(* JavaScript numbers *)

RECURSIVE Gcd(_, _)
Gcd(a, b) == IF b = 0 THEN a ELSE Gcd(b, a % b)

Abs(i) == IF i < 0 THEN 0 - i ELSE i

Sign(i) == IF i < 0 THEN 0 - 1 ELSE IF i > 0 THEN 1 ELSE 0

NaN == [k |-> "nan", n |-> 0, d |-> 1]
PosInf == [k |-> "inf", n |-> 1, d |-> 1]
NegInf == [k |-> "inf", n |-> 0 - 1, d |-> 1]
Undefined == [k |-> "undef", n |-> 0, d |-> 1]

\* the rational n/d (d # 0), in lowest terms with a positive denominator
Rat(n, d) ==
    IF d = 1 THEN [k |-> "fin", n |-> n, d |-> 1]
    ELSE LET g == Gcd(Abs(n), Abs(d))
             s == IF d < 0 THEN 0 - 1 ELSE 1
         IN  [k |-> "fin", n |-> (s * n) \div g, d |-> (s * d) \div g]

Num(i) == [k |-> "fin", n |-> i, d |-> 1]

Zero == Num(0)
One == Num(1)

InfOf(s) == IF s < 0 THEN NegInf ELSE PosInf

IsFinite(a) == a.k = "fin"
IsNaN(a) == a.k = "nan"

\* ToNumber: undefined converts to NaN
ToNum(a) == IF a.k = "undef" THEN NaN ELSE a

JNeg(a) ==
    CASE a.k = "fin" -> Rat(0 - a.n, a.d)
      [] a.k = "inf" -> InfOf(0 - a.n)
      [] OTHER -> NaN

JAddN(a, b) ==
    CASE a.k = "fin" /\ b.k = "fin" -> Rat(a.n * b.d + b.n * a.d, a.d * b.d)
      [] a.k = "nan" \/ b.k = "nan" -> NaN
      [] a.k = "inf" /\ b.k = "inf" -> IF a.n = b.n THEN a ELSE NaN
      [] a.k = "inf" -> a
      [] OTHER -> b

JAdd(a, b) == JAddN(ToNum(a), ToNum(b))

JSub(a, b) == JAdd(a, JNeg(ToNum(b)))

JMulN(a, b) ==
    CASE a.k = "fin" /\ b.k = "fin" -> Rat(a.n * b.n, a.d * b.d)
      [] a.k = "nan" \/ b.k = "nan" -> NaN
      [] OTHER -> IF Sign(a.n) * Sign(b.n) = 0 THEN NaN
                  ELSE InfOf(Sign(a.n) * Sign(b.n))

JMul(a, b) == JMulN(ToNum(a), ToNum(b))

JDivN(a, b) ==
    CASE a.k = "fin" /\ b.k = "fin" /\ b.n # 0 -> Rat(a.n * b.d, a.d * b.n)
      [] a.k = "nan" \/ b.k = "nan" -> NaN
      [] a.k = "inf" /\ b.k = "inf" -> NaN
      [] a.k = "inf" -> InfOf(a.n * (IF b.n < 0 THEN 0 - 1 ELSE 1))
      [] b.k = "inf" -> Zero
      [] OTHER -> IF a.n = 0 THEN NaN ELSE InfOf(a.n)

JDiv(a, b) == JDivN(ToNum(a), ToNum(b))

\* a < b; every comparison with NaN is false
JLt(a, b) ==
    LET x == ToNum(a)
        y == ToNum(b)
    IN  CASE x.k = "nan" \/ y.k = "nan" -> FALSE
          [] x.k = "inf" /\ y.k = "inf" -> x.n < y.n
          [] x.k = "inf" -> x.n < 0
          [] y.k = "inf" -> y.n > 0
          [] OTHER -> x.n * y.d < y.n * x.d

JLe(a, b) == JLt(a, b) \/ (ToNum(a).k # "nan" /\ ToNum(a) = ToNum(b))

\* Math.min and Math.max of two arguments: NaN if either is NaN
JMin(a, b) ==
    IF ToNum(a).k = "nan" \/ ToNum(b).k = "nan" THEN NaN
    ELSE IF JLt(b, a) THEN ToNum(b) ELSE ToNum(a)

JMax(a, b) ==
    IF ToNum(a).k = "nan" \/ ToNum(b).k = "nan" THEN NaN
    ELSE IF JLt(a, b) THEN ToNum(b) ELSE ToNum(a)

\* Math.max(...list): -Infinity for the empty list
RECURSIVE JMaxOf(_)
JMaxOf(s) == IF s = << >> THEN NegInf ELSE JMax(Head(s), JMaxOf(Tail(s)))

\* Math.min(...list): Infinity for the empty list
RECURSIVE JMinOf(_)
JMinOf(s) == IF s = << >> THEN PosInf ELSE JMin(Head(s), JMinOf(Tail(s)))

JFloor(a) ==
    LET x == ToNum(a)
    IN  IF x.k = "fin" THEN Num(x.n \div x.d) ELSE x

JCeil(a) == JNeg(JFloor(JNeg(ToNum(a))))

\* Math.round: the nearest integer, a tie going up
JRound(a) == JFloor(JAdd(a, Rat(1, 2)))

\* the value is falsy as a number: 0, NaN or undefined
Falsy(a) == a.k \in {"nan", "undef"} \/ (a.k = "fin" /\ a.n = 0)

\* the expression (v || 0)
OrZero(a) == IF Falsy(a) THEN Zero ELSE a

-----------------------------------------------------------------------------
(* Sequences *)

Range(s) == {s[i] : i \in 1..Len(s)}

RECURSIVE SeqSum(_)
SeqSum(s) == IF s = << >> THEN Zero ELSE JAdd(Head(s), SeqSum(Tail(s)))

RECURSIVE Concat(_)
Concat(ss) == IF ss = << >> THEN << >> ELSE Head(ss) \o Concat(Tail(ss))

\* s with the elements at the positions in drop removed
RECURSIVE Without(_, _, _)
Without(s, drop, i) ==
    IF i > Len(s) THEN << >>
    ELSE (IF i \in drop THEN << >> ELSE << s[i] >>) \o Without(s, drop, i + 1)

-----------------------------------------------------------------------------
(* Props and layout.  Dimensions are the components' defaults. *)

Width == 400
Height == 300
YAxisWidth == 50
XAxisHeight == 30
TopPadding == 15
HorizontalAxisWidth == 80
BarGapRatio == Rat(1, 10)
Headroom == Rat(11, 10)
Ticks == 5
RadialMaxValue == 100
SparkWidth == 100

Charts == {"Area", "Bar", "Pie", "Radar", "Radial", "Sparkline"}

FrameCharts == {"Area", "Pie", "Radar", "Radial"}
TimerCharts == {"Bar", "Sparkline"}
LegendCharts == {"Area", "Bar", "Pie", "Radar"}

LegendPositions == {"top", "bottom", "left", "right"}

\* the variants of each component that the model covers
Variants(c) ==
    CASE c = "Area" -> {"curved", "straight", "stepped", "stacked"}
      [] c = "Bar" -> {"default", "stacked", "horizontal"}
      [] c = "Radial" -> {"multi"}
      [] OTHER -> {"default"}

\* an item of the data array: the values of its two numeric fields
Item(a, b) == << Num(a), Num(b) >>

\* RadarChart: the categories prop names both fields
categories == << 1, 2 >>

isHorizontal == chart = "Bar" /\ variant = "horizontal"

chartWidth ==
    IF isHorizontal THEN Width - HorizontalAxisWidth ELSE Width - YAxisWidth

chartHeight ==
    IF chart = "Area" THEN Height - XAxisHeight - TopPadding
    ELSE Height - XAxisHeight

chartX == IF isHorizontal THEN HorizontalAxisWidth ELSE YAxisWidth

chartY == IF chart = "Area" THEN TopPadding ELSE 0

isMultiSeries ==
    IF chart = "Radar" THEN Len(data) > 1 ELSE Len(yKeys) > 1

isStacked == variant = "stacked" /\ isMultiSeries

\* showLegend is 'auto' (Area, Bar, Radar) or true (Pie)
shouldShowLegend == IF chart = "Pie" THEN TRUE ELSE isMultiSeries

\* the things a legend entry stands for: series (Area, Bar) or data items
LegendEntries ==
    IF chart \in {"Area", "Bar"} THEN 1..Len(yKeys) ELSE 1..Len(data)

\* where the svg's left edge lies, measured from the left edge of the element
\* that containerRef points to: a left legend is laid out before the svg
svgLeft ==
    IF chart \in {"Area", "Bar"} /\ shouldShowLegend /\ legendPosition = "left"
    THEN legendSize ELSE 0

\* where the svg's top edge lies below the top of that element: a top legend
\* is laid out above the svg
svgTop ==
    IF chart \in {"Area", "Bar"} /\ shouldShowLegend /\ legendPosition = "top"
    THEN legendSize ELSE 0

-----------------------------------------------------------------------------
(* The animation driver *)

Duration ==
    CASE chart \in {"Area", "Radar"} -> 800
      [] OTHER -> 1000

\* a frame callback: the loop's start (0 while unset) and the reveal it belongs to
NewLoop == [start |-> 0, reveal |-> reveal + 1]

\* progress = Math.min((timestamp - start) / duration, 1)
StepProgress(timestamp, start, duration) ==
    JMin(JDiv(Num(timestamp - start), Num(duration)), One)

\* a loop that asks for the next frame whatever the progress
AlwaysReschedules(progress) == TRUE

\* if (progress < 1) requestAnimationFrame(step)
Reschedules(progress) == JLt(progress, One)

\* useState(animate ? 0 : 1)
InitialProgress(anim) == IF anim THEN Zero ELSE One

\* RadialChart's effect key: the values of the data items (multi variant)
animationKey(d) == IF Len(d) > 0 THEN << "multi", d >> ELSE << "single", << >> >>

\* the effect's dependencies [animate, data] changed; RadialChart keys on
\* animationKey instead of the data array
EffectFires(anim, d) ==
    IF chart = "Radial" THEN anim # animate \/ animationKey(d) # animationKey(data)
    ELSE TRUE

\* the frame callbacks pending after the previous effect's cleanup: only
\* RadialChart's effect returns one (cancelAnimationFrame)
RafAfterCleanup ==
    IF chart = "Radial"
    THEN SelectSeq(rafQueue, LAMBDA cb : cb.reveal # reveal)
    ELSE rafQueue

\* the timer after the previous effect's cleanup (Bar, Sparkline: clearTimeout)
TimerAfterCleanup == IF chart \in TimerCharts THEN FALSE ELSE timer

\* the frame callbacks pending after the effect ran with animate = anim
RafAfterEffect(anim) ==
    IF chart \in FrameCharts /\ anim
    THEN Append(RafAfterCleanup, NewLoop)
    ELSE RafAfterCleanup

TimerAfterEffect(anim) ==
    IF chart \in TimerCharts THEN anim ELSE TimerAfterCleanup

\* animationProgress after the effect ran: only RadialChart's effect writes it
ProgressAfterEffect(anim) ==
    IF chart = "Radial" THEN (IF anim THEN Zero ELSE One) ELSE animationProgress

\* the value the effect passed to setAnimationProgress, if it called it
WriteOfEffect(anim) ==
    IF chart = "Radial" THEN ProgressAfterEffect(anim) ELSE Undefined

-----------------------------------------------------------------------------
(* Scale and layout: AreaChart and BarChart *)

\* positions in yKeys of the series that are not hidden
visibleSeries == Without([i \in 1..Len(yKeys) |-> i], hiddenSeries, 1)

visibleYKeys == [j \in 1..Len(visibleSeries) |-> yKeys[visibleSeries[j]]]

\* const keys = visibleYKeys.length > 0 ? visibleYKeys : yKeys
scaleKeys == IF Len(visibleYKeys) > 0 THEN visibleYKeys ELSE yKeys

\* keys.reduce((sum, key) => sum + (d[key] || 0), 0)
RowSum(item, keys) == SeqSum([j \in 1..Len(keys) |-> OrZero(item[keys[j]])])

\* data.flatMap(d => keys.map(key => d[key] || 0))
FlatValues(keys) ==
    Concat([i \in 1..Len(data) |-> [j \in 1..Len(keys) |-> OrZero(data[i][keys[j]])]])

\* data.map(d => keys.reduce(...))
RowSums(keys) == [i \in 1..Len(data) |-> RowSum(data[i], keys)]

AreaMaxValue ==
    IF isStacked THEN JMul(JMaxOf(RowSums(scaleKeys)), Headroom)
    ELSE JMul(JMaxOf(FlatValues(scaleKeys)), Headroom)

BarMaxValue ==
    IF variant = "stacked" THEN JMaxOf(RowSums(scaleKeys))
    ELSE JMaxOf(FlatValues(scaleKeys))

maxValue == IF chart = "Area" THEN AreaMaxValue ELSE BarMaxValue

minValue == Zero

valueRange == JSub(maxValue, minValue)

\* Math.max(data.length - 1, 1)
Spans == IF Len(data) - 1 > 1 THEN Len(data) - 1 ELSE 1

\* x of data index i (counted from 0)
ColumnX(i) == JAdd(Num(chartX), JMul(Rat(i, Spans), Num(chartWidth)))

\* chartY + chartHeight - ((v - minValue) / range) * chartHeight
ScaleY(v, range) ==
    JSub(Num(chartY + chartHeight),
         JMul(JDiv(JSub(v, minValue), range), Num(chartHeight)))

\* y of a value on the Area chart's scale
ValueY(v) == ScaleY(v, valueRange)

\* a stack that counts hidden series too
RECURSIVE StackedOverAll(_, _)
StackedOverAll(ki, i) ==
    IF ki <= 1 THEN Zero
    ELSE JAdd(StackedOverAll(ki - 1, i), OrZero(data[i][yKeys[ki - 1]]))

\* the sum of the visible series before position ki at data index i
RECURSIVE StackedBefore(_, _)
StackedBefore(ki, i) ==
    IF ki <= 1 THEN Zero
    ELSE JAdd(StackedBefore(ki - 1, i),
              IF (ki - 1) \in hiddenSeries THEN Zero
              ELSE OrZero(data[i][yKeys[ki - 1]]))

getPoints(key, stackedValues) ==
    LET range == valueRange
    IN  [i \in 1..Len(data) |->
            LET value == OrZero(data[i][key])
                stackedBase == IF stackedValues = << >> THEN Zero ELSE stackedValues[i]
            IN  [x |-> ColumnX(i - 1),
                 y |-> ScaleY(JAdd(value, stackedBase), range),
                 value |-> value,
                 stackedBase |-> stackedBase]]

allPoints ==
    [ki \in 1..Len(yKeys) |->
        IF ki \in hiddenSeries
        THEN [key |-> yKeys[ki], points |-> << >>, index |-> ki, hidden |-> TRUE]
        ELSE [key |-> yKeys[ki],
              points |-> getPoints(yKeys[ki],
                            IF isStacked
                            THEN [i \in 1..Len(data) |-> StackedBefore(ki, i)]
                            ELSE << >>),
              index |-> ki,
              hidden |-> FALSE]]

-----------------------------------------------------------------------------
(* Path generators: AreaChart.  A path is the sequence of its commands. *)

Cmd(c, args) == [c |-> c, a |-> args]

\* Math.ceil(n * animationProgress), without the fallback to 1
CeilCount(n) == JCeil(JMul(Num(n), animationProgress)).n

\* Math.ceil(n * animationProgress) || 1
VisibleCount(n) ==
    LET c == JCeil(JMul(Num(n), animationProgress))
    IN  IF Falsy(c) THEN 1 ELSE c.n

\* points.slice(0, count)
Slice(points, count) ==
    SubSeq(points, 1, IF count < Len(points) THEN count ELSE Len(points))

Slope(p, q) == JDiv(JSub(q.y, p.y), JSub(q.x, p.x))

\* a tangent four times as steep as the chord to the neighbouring point
SteepTangent(pts, i) ==
    IF i = Len(pts) THEN JMul(Num(4), Slope(pts[i - 1], pts[i]))
    ELSE JMul(Num(4), Slope(pts[i], pts[i + 1]))

\* the tangent at position i of the monotone spline through pts
Tangent(pts, i) ==
    LET n == Len(pts)
    IN  IF i = 1 THEN Slope(pts[1], pts[2])
        ELSE IF i = n THEN Slope(pts[n - 1], pts[n])
        ELSE LET slopeLeft == Slope(pts[i - 1], pts[i])
                 slopeRight == Slope(pts[i], pts[i + 1])
             IN  IF JLe(JMul(slopeLeft, slopeRight), Zero) THEN Zero
                 ELSE JDiv(Num(2), JAdd(JDiv(One, slopeLeft), JDiv(One, slopeRight)))

\* the cubic segment from pts[i] to pts[i + 1]
Bezier(pts, i) ==
    LET p0 == pts[i]
        p1 == pts[i + 1]
        dx == JDiv(JSub(p1.x, p0.x), Num(3))
    IN  Cmd("C", << JAdd(p0.x, dx), JAdd(p0.y, JMul(Tangent(pts, i), dx)),
                    JSub(p1.x, dx), JSub(p1.y, JMul(Tangent(pts, i + 1), dx)),
                    p1.x, p1.y >>)

generateLinePath(points) ==
    LET visiblePoints == Slice(points, VisibleCount(Len(points)))
        n == Len(visiblePoints)
    IN  IF Len(points) < 2 THEN << >>
        ELSE IF variant = "stepped"
        THEN << Cmd("M", << visiblePoints[1].x, visiblePoints[1].y >>) >>
             \o Concat([i \in 1..(n - 1) |->
                    << Cmd("H", << visiblePoints[i + 1].x >>),
                       Cmd("V", << visiblePoints[i + 1].y >>) >>])
        ELSE IF variant # "curved"
        THEN [i \in 1..n |->
                Cmd(IF i = 1 THEN "M" ELSE "L", << visiblePoints[i].x, visiblePoints[i].y >>)]
        ELSE IF n < 2 THEN << >>
        ELSE IF n = 2
        THEN << Cmd("M", << visiblePoints[1].x, visiblePoints[1].y >>),
                Cmd("L", << visiblePoints[2].x, visiblePoints[2].y >>) >>
        ELSE << Cmd("M", << visiblePoints[1].x, visiblePoints[1].y >>) >>
             \o [i \in 1..(n - 1) |-> Bezier(visiblePoints, i)]

\* generateAreaPath throws: the line path is not empty and the stacked branch
\* reads .y of baseYPoints[0] of an empty base.  basePoints is << >> for null
\* and << points >> for an array.
AreaPathThrows(points, basePoints) ==
    /\ variant = "stacked"
    /\ basePoints # << >>
    /\ Len(Slice(basePoints[1], VisibleCount(Len(basePoints[1])))) = 0
    /\ generateLinePath(points) # << >>

\* The path generateAreaPath returns (<< >> where it throws).  In the stacked
\* branch the variant is 'stacked', so its stepped and curved sub-branches are
\* never taken and the closing edge is made of straight lines.
generateAreaPath(points, basePoints) ==
    LET linePath == generateLinePath(points)
        visiblePoints == Slice(points, VisibleCount(Len(points)))
        lastPoint == visiblePoints[Len(visiblePoints)]
        firstPoint == visiblePoints[1]
        bottom == Num(chartY + chartHeight)
    IN  IF linePath = << >> THEN << >>
        ELSE IF basePoints # << >> /\ variant = "stacked"
        THEN LET base == basePoints[1]
                 visibleBase == Slice(base, VisibleCount(Len(base)))
                 m == Len(visibleBase)
                 baseYPoints == [i \in 1..m |->
                                   [x |-> visibleBase[m + 1 - i].x,
                                    y |-> ValueY(visibleBase[m + 1 - i].stackedBase)]]
             IN  IF m = 0 THEN << >>
                 ELSE linePath
                      \o << Cmd("L", << lastPoint.x, baseYPoints[1].y >>) >>
                      \o [i \in 1..(m - 1) |->
                             Cmd("L", << baseYPoints[i + 1].x, baseYPoints[i + 1].y >>)]
                      \o << Cmd("Z", << >>) >>
        ELSE linePath
             \o << Cmd("L", << lastPoint.x, bottom >>),
                   Cmd("L", << firstPoint.x, bottom >>),
                   Cmd("Z", << >>) >>

\* const prevPoints = isStacked && index > 0 ? allPoints[index - 1].points : null
prevPoints(ki) ==
    IF isStacked /\ ki > 1 THEN << allPoints[ki - 1].points >> ELSE << >>

\* the area path of every series that is rendered
AreaPaths ==
    [j \in 1..Len(visibleSeries) |->
        generateAreaPath(allPoints[visibleSeries[j]].points, prevPoints(visibleSeries[j]))]

\* a render of the instance in the current state throws
RenderThrows ==
    /\ chart = "Area"
    /\ \E j \in 1..Len(visibleSeries) :
          AreaPathThrows(allPoints[visibleSeries[j]].points, prevPoints(visibleSeries[j]))

-----------------------------------------------------------------------------
(* Bar layout *)

totalBarSpace == IF isHorizontal THEN chartHeight ELSE chartWidth

barGap == JDiv(JMul(Num(totalBarSpace), BarGapRatio), Num(Len(data) + 1))

totalBarWidth ==
    JDiv(JSub(Num(totalBarSpace), JMul(barGap, Num(Len(data) + 1))), Num(Len(data)))

-----------------------------------------------------------------------------
(* What a render emits: the numbers that depend on the data, as coordinates *)
(* and as label texts, and the shapes plotted for the data                  *)

suffixes == << "", "K", "M", "B", "T" >>

\* Math.floor(Math.log10(a) / 3) for an integer a >= 1
RECURSIVE Tier(_)
Tier(a) == IF a < 1000 THEN 0 ELSE 1 + Tier(a \div 1000)

\* 10 ^ (tier * 3)
RECURSIVE Scale(_)
Scale(tier) == IF tier = 0 THEN 1 ELSE 1000 * Scale(tier - 1)

\* toFixed(1) of a value that is not negative
ToFixed1(a) == JDiv(JRound(JMul(a, Num(10))), Num(10))

\* formatNumber(num, true): the number the text shows (NaN when it reads NaN)
\* and the suffix after it.  An infinite num takes the compact branch, where
\* num / Infinity is NaN and suffixes[Infinity] is undefined.
formatNumber(num) ==
    LET x == ToNum(num)
        whole == Abs(x.n) \div x.d
        tier == Tier(whole)
    IN  CASE x.k = "nan" -> [shown |-> NaN, suffix |-> ""]
          [] x.k = "inf" -> [shown |-> NaN, suffix |-> "undefined"]
          [] whole >= 1000 ->
                [shown |-> JMul(Num(Sign(x.n)), ToFixed1(JDiv(Num(Abs(x.n)), Num(x.d * Scale(tier))))),
                 suffix |-> IF tier < Len(suffixes) THEN suffixes[tier + 1]
                            ELSE "undefined"]
          [] OTHER -> [shown |-> x, suffix |-> ""]

\* Area: minValue + (valueRange / (ticks - 1)) * i; Bar: (maxValue / (ticks - 1)) * i
tickValues ==
    [i \in 1..Ticks |->
        IF chart = "Area"
        THEN JAdd(minValue, JMul(JDiv(valueRange, Num(Ticks - 1)), Num(i - 1)))
        ELSE JMul(JDiv(maxValue, Num(Ticks - 1)), Num(i - 1))]

\* where the label and the grid line of a tick are put along the value axis
TickPosition(tick) ==
    IF chart = "Area"
    THEN JSub(Num(chartY + chartHeight),
              JMul(JDiv(JSub(tick, minValue), valueRange), Num(chartHeight)))
    ELSE IF isHorizontal
    THEN JAdd(Num(chartX), JMul(JDiv(tick, maxValue), Num(chartWidth)))
    ELSE JSub(Num(chartHeight), JMul(JDiv(tick, maxValue), Num(chartHeight)))

\* renderYAxis (Area, Bar) and renderXAxis (horizontal Bar) with showYAxis,
\* showXAxis and showGrid at their defaults: label texts and positions
AxisNumbers ==
    IF chart \in {"Area", "Bar"}
    THEN UNION {{formatNumber(tickValues[i]).shown, TickPosition(tickValues[i])} :
                    i \in 1..Ticks}
    ELSE {}

\* BarChart: (value / maxValue) * extent * animationProgress
BarLength(value) ==
    JMul(JMul(JDiv(value, maxValue), Num(IF isHorizontal THEN chartWidth ELSE chartHeight)),
         animationProgress)

\* BarChart: the series drawn for every item
barKeys ==
    IF ~isHorizontal /\ variant = "stacked" /\ isMultiSeries THEN visibleYKeys
    ELSE << yKeys[1] >>

\* RadarChart: maxValue
RadarMaxValue ==
    LET shown == Without([i \in 1..Len(data) |-> i], hiddenSeries, 1)
        rows == IF Len(shown) = 0 THEN [i \in 1..Len(data) |-> i] ELSE shown
    IN  JMaxOf(Concat([j \in 1..Len(rows) |->
                 [c \in 1..Len(categories) |-> OrZero(data[rows[j]][categories[c]])]]))

\* RadialChart: Math.max(maxValue, ...data.map(d => d[valueKey] || 0))
totalMax == JMax(Num(RadialMaxValue), JMaxOf([i \in 1..Len(data) |-> OrZero(data[i][1])]))

\* SparklineChart: x of point i (counted from 0)
SparkX(i) == JMul(JDiv(Num(i), Num(Len(data) - 1)), Num(SparkWidth))

\* the sum over every item of the data, the hidden ones too
TotalOfAll == SeqSum([j \in 1..Len(data) |-> OrZero(data[j][1])])

\* PieChart: const total = visibleData.reduce((sum, d) => sum + (d[valueKey] || 0), 0)
total ==
    SeqSum([j \in 1..Len(data) |->
              IF j \in hiddenSeries THEN Zero ELSE OrZero(data[j][1])])

\* PieChart: the share of the sweep that slice i takes at the current progress
SliceShare(i) ==
    IF i \in hiddenSeries \/ ~JLt(Zero, total) THEN Zero
    ELSE JMul(JDiv(OrZero(data[i][1]), total), animationProgress)

\* the numbers the plotted shapes are drawn from
ShapeNumbers ==
    CASE chart = "Area" ->
            UNION {{allPoints[ki].points[i].x, allPoints[ki].points[i].y} :
                      ki \in Range(visibleSeries), i \in 1..Len(data)}
      [] chart = "Bar" ->
            {BarLength(OrZero(data[i][barKeys[j]])) :
                i \in 1..Len(data), j \in 1..Len(barKeys)}
      [] chart = "Pie" ->
            {SliceShare(i) : i \in (1..Len(data)) \ hiddenSeries}
      [] chart = "Radar" ->
            {JMul(JDiv(OrZero(data[i][categories[c]]), RadarMaxValue), animationProgress) :
                i \in (1..Len(data)) \ hiddenSeries, c \in 1..Len(categories)}
      [] chart = "Radial" ->
            IF Len(data) > 0
            THEN {JMul(JMin(JMul(JDiv(OrZero(data[i][1]), totalMax), Num(100)), Num(100)),
                       animationProgress) : i \in 1..Len(data)}
            ELSE {Zero}
      [] OTHER ->
            {SparkX(i - 1) : i \in 1..Len(data)}

\* every number a render puts into a coordinate or a label
EmittedNumbers == AxisNumbers \cup ShapeNumbers

\* the shapes plotted for the data: area paths that are not empty, bars,
\* slices, series polygons, rings, the sparkline
PlottedShapes ==
    CASE chart = "Area" ->
            Cardinality({j \in 1..Len(visibleSeries) : AreaPaths[j] # << >>})
      [] chart = "Bar" -> Len(data) * Len(barKeys)
      [] chart \in {"Pie", "Radar"} -> Cardinality((1..Len(data)) \ hiddenSeries)
      [] chart = "Radial" -> Len(data)
      [] OTHER -> IF Len(data) = 0 THEN 0 ELSE 1

-----------------------------------------------------------------------------
(* Interaction: snapping and hover state *)

NoCrosshair == [visible |-> FALSE, x |-> Zero, index |-> Num(0 - 1), points |-> << >>]
NoTooltip == [visible |-> FALSE, x |-> Zero, y |-> Zero]
NoBar == Num(0 - 1)
Null == Undefined
NoPointer == [over |-> FALSE, x |-> Zero, y |-> Zero, target |-> << >>]

\* a handler that uses the rounded index as it is
NoClamp(nearestIndex) == nearestIndex

\* Math.max(0, Math.min(nearestIndex, data.length - 1))
Clamp(nearestIndex) == JMax(Zero, JMin(nearestIndex, Num(Len(data) - 1)))

\* AreaChart.handleChartMouseMove and useCrosshairSnap: the index snapped to,
\* counted from 0, for mouseX = e.clientX - rect.left
SnapIndex(mouseX) ==
    LET stepWidth == JDiv(Num(chartWidth), Num(Spans))
    IN  Clamp(JRound(JDiv(JSub(mouseX, Num(chartX)), stepWidth)))

\* const snapX = chartX + (nearestIndex / Math.max(data.length - 1, 1)) * chartWidth
SnapX(nearestIndex) ==
    JAdd(Num(chartX), JMul(JDiv(nearestIndex, Num(Spans)), Num(chartWidth)))

\* BarChart.handleChartMouseMove: the bar group snapped to, counted from 0
BarSnapIndex(mouseX, mouseY) ==
    LET slot == JAdd(totalBarWidth, barGap)
    IN  IF isHorizontal
        THEN Clamp(JFloor(JDiv(JSub(mouseY, barGap), slot)))
        ELSE Clamp(JFloor(JDiv(JSub(JSub(mouseX, Num(chartX)), barGap), slot)))

\* data[nearestIndex] is an item (nearestIndex counted from 0)
HasItem(nearestIndex) ==
    IsFinite(nearestIndex) /\ nearestIndex.d = 1
        /\ nearestIndex.n + 1 \in 1..Len(data)

\* the highlighted points of the crosshair at data index i (counted from 1):
\* allPoints.filter(ap => !ap.hidden && ap.points[nearestIndex]).map(...)
CrosshairPoints(i) ==
    IF i \notin 1..Len(data) THEN << >>
    ELSE [j \in 1..Len(visibleSeries) |->
            LET ap == allPoints[visibleSeries[j]]
            IN  [y |-> ap.points[i].y, value |-> ap.points[i].value, key |-> ap.key]]

PointYs(points) == [j \in 1..Len(points) |-> points[j].y]

\* BarChart: where the tooltip is put for bar group i (counted from 0)
BarTooltip(i) ==
    LET item == data[i + 1]
        mid == JAdd(JAdd(barGap, JMul(Num(i), JAdd(totalBarWidth, barGap))),
                    JDiv(totalBarWidth, Num(2)))
        maxBarValue ==
            JMaxOf([j \in 1..Len(visibleYKeys) |-> OrZero(item[visibleYKeys[j]])])
    IN  IF isHorizontal
        THEN [visible |-> TRUE,
              x |-> JAdd(Num(chartX),
                         JMul(JDiv(OrZero(item[yKeys[1]]), maxValue), Num(chartWidth))),
              y |-> mid]
        ELSE [visible |-> TRUE,
              x |-> JAdd(Num(chartX), mid),
              y |-> JSub(Num(chartHeight),
                         JMul(JMul(JDiv(maxBarValue, maxValue), Num(chartHeight)),
                              animationProgress))]

\* a leave handler that forgets the tooltip
KeepTooltip(t) == t

\* the tooltip after the leave handler: Area and Bar set a hidden tooltip,
\* Pie and Radar setTooltip({ ...tooltip, visible: false })
LeaveTooltip(t) ==
    IF chart \in {"Area", "Bar"} THEN NoTooltip ELSE [t EXCEPT !.visible = FALSE]

\* the element the pointer was last over is still rendered
TargetRendered(t) ==
    IF chart \in {"Pie", "Radar"}
    THEN Len(t) > 0 /\ t[1] \in 1..Len(data) /\ t[1] \notin hiddenSeries
    ELSE TRUE

\* the pointer may come to rest on target t: it was over nothing, over t, or
\* over an element that has since gone
MayEnter(t) == ~pointer.over \/ pointer.target = t \/ ~TargetRendered(pointer.target)

-----------------------------------------------------------------------------
(* The inputs the environment supplies *)

\* a data array of n items
Sample(n) == [i \in 1..n |-> Item(i % (MaxValue + 1), MaxValue)]

SampleData == {Sample(n) : n \in 0..MaxPoints}

\* laid-out sizes of a legend, in px
LegendSizes == {40, 120}

Midway(a, b) == JDiv(JAdd(a, b), Num(2))

\* AreaChart: pointer positions over the tracking rect, as x in the svg: every
\* data column, every point midway between two columns, and the right edge
AreaPointerXs ==
    {ColumnX(k) : k \in 0..(Spans - 1)}
    \cup {Midway(ColumnX(k), ColumnX(k + 1)) : k \in 0..(Len(data) - 2)}
    \cup {Num(chartX + chartWidth)}

\* BarChart: the middle of bar group i (counted from 0) along the bar axis
BarMiddle(i) ==
    JAdd(JAdd(barGap, JMul(Num(i), JAdd(totalBarWidth, barGap))),
         JDiv(totalBarWidth, Num(2)))

\* BarChart: pointer positions over the tracking rect: the corner where it
\* starts, the middle of every bar group, and its far edge
BarPointers ==
    IF isHorizontal
    THEN {<< Num(chartX), Zero >>, << Num(chartX), Num(chartHeight) >>}
         \cup {<< Num(chartX), BarMiddle(i) >> : i \in 0..(Len(data) - 1)}
    ELSE {<< Num(chartX), Zero >>,
          << JAdd(Num(chartX + chartWidth), JMul(Num(2), barGap)), Zero >>}
         \cup {<< JAdd(Num(chartX), BarMiddle(i)), Zero >> : i \in 0..(Len(data) - 1)}

\* Pie, Radar: a pointer position over a slice or dot, measured from the container
ShapePointers == {<< Num(150), Num(100) >>}

-----------------------------------------------------------------------------
(* ChartTooltip: the position effect and the style it leads to.  All numbers *)
(* are px; the tooltip is absolutely positioned in the chart's container.    *)

TooltipPadding == 10

\* useState({ left: 0, top: 0, placement: 'top' })
InitialPosition ==
    [left |-> Zero, top |-> Zero, placement |-> "top", horizontalShift |-> "undefined"]

\* the container at the window's origin, nothing measured
NoLayout ==
    [containerLeft |-> Zero, containerTop |-> Zero, tooltipWidth |-> Zero,
     tooltipHeight |-> Zero, viewportWidth |-> Zero]

Half(w) == JDiv(w, Num(2))

\* the effect's horizontal part: left and horizontalShift
HorizontalPlacement(x, l) ==
    LET absX == JAdd(l.containerLeft, x)
        w == l.tooltipWidth
        padding == Num(TooltipPadding)
    IN  IF JLt(JSub(l.viewportWidth, padding), JAdd(absX, Half(w)))
        THEN [left |-> JAdd(JSub(x, Half(w)), JMin(padding, JSub(l.viewportWidth, absX))),
              horizontalShift |-> "right"]
        ELSE IF JLt(JSub(absX, Half(w)), padding)
        THEN [left |-> JSub(JAdd(x, Half(w)), JMin(padding, absX)),
              horizontalShift |-> "left"]
        ELSE [left |-> x, horizontalShift |-> "center"]

\* the effect's vertical part: top and placement
VerticalPlacement(y, l) ==
    LET absY == JAdd(l.containerTop, y)
    IN  IF JLt(JSub(JSub(absY, l.tooltipHeight), Num(10)), Num(TooltipPadding))
        THEN [top |-> JAdd(y, Num(20)), placement |-> "bottom"]
        ELSE [top |-> JSub(JSub(y, l.tooltipHeight), Num(10)), placement |-> "top"]

\* what the effect passes to setPosition
Placed(x, y, l) ==
    LET h == HorizontalPlacement(x, l)
        v == VerticalPlacement(y, l)
    IN  [left |-> h.left, top |-> v.top, placement |-> v.placement,
         horizontalShift |-> h.horizontalShift]

\* style: left: position.left, transform: translateX(-50%) when centred;
\* the tooltip's left and right edge in the window
TooltipLeftEdge ==
    JSub(JAdd(layout.containerLeft, position.left),
         IF position.horizontalShift = "center" THEN Half(layout.tooltipWidth) ELSE Zero)

TooltipRightEdge == JAdd(TooltipLeftEdge, layout.tooltipWidth)

-----------------------------------------------------------------------------
(* Initial state: the instance after its first render and effect *)

Init ==
    /\ chart \in Charts
    /\ variant \in Variants(chart)
    /\ yKeys \in (IF chart \in {"Area", "Bar"} THEN {<< 1 >>, << 1, 2 >>} ELSE {<< 1 >>})
    /\ data \in SampleData
    /\ animate \in BOOLEAN
    /\ legendPosition \in (IF chart \in {"Area", "Bar"} /\ Len(yKeys) > 1
                            THEN LegendPositions ELSE {"bottom"})
    /\ legendInteractive \in (IF chart \in {"Pie", "Radar"}
                                  \/ (chart \in {"Area", "Bar"} /\ Len(yKeys) > 1)
                               THEN BOOLEAN ELSE {FALSE})
    /\ legendSize \in (IF chart \in {"Area", "Bar"} /\ Len(yKeys) > 1
                          /\ legendPosition \in {"top", "left"}
                       THEN LegendSizes ELSE {0})
    /\ mounted = TRUE
    /\ hiddenSeries = {}
    /\ crosshair = NoCrosshair
    /\ tooltip = NoTooltip
    /\ hoveredBarIndex = NoBar
    /\ hoveredIndex = Null
    /\ hoveredPoint = << >>
    /\ frameQueue = << >>
    /\ now = 0
    /\ pointer = NoPointer
    /\ reveal = 1
    /\ animationProgress = (IF chart = "Radial" /\ animate THEN Zero
                            ELSE InitialProgress(animate))
    /\ rafQueue = (IF chart \in FrameCharts /\ animate
                   THEN << [start |-> 0, reveal |-> 1] >> ELSE << >>)
    /\ timer = (chart \in TimerCharts /\ animate)
    /\ lastWrite = (IF chart = "Radial" THEN animationProgress ELSE Undefined)
    /\ sawZero = (animationProgress = Zero)
    /\ settled = FALSE
    /\ layout = NoLayout
    /\ position = InitialPosition
    /\ hiddenItems = {}
    /\ NoSelect
    /\ NoPicker

-----------------------------------------------------------------------------
(* Actions *)

\* a render threw: React has torn the tree down, no handler of it runs again
crashed == mounted /\ RenderThrows

alive == mounted /\ ~crashed

idle == frameQueue = << >>

\* the [animate, data] effect runs with animate = anim
EffectRuns(anim) ==
    /\ rafQueue' = RafAfterEffect(anim)
    /\ timer' = TimerAfterEffect(anim)
    /\ animationProgress' = ProgressAfterEffect(anim)
    /\ reveal' = reveal + 1
    /\ lastWrite' = WriteOfEffect(anim)
    /\ sawZero' = (animationProgress' = Zero)
    /\ settled' = (animationProgress = One /\ rafQueue = << >> /\ ~timer)

\* the host passes a new data array
DataChange(d) ==
    /\ alive /\ idle
    /\ reveal < MaxReveals
    /\ data' = d
    /\ IF EffectFires(animate, d)
       THEN EffectRuns(animate)
       ELSE UNCHANGED << rafQueue, timer, animationProgress, reveal, lastWrite,
                         sawZero, settled >>
    /\ UNCHANGED << propVars, animate, mounted, hiddenSeries, hoverVars, frameQueue, now >>

\* the host flips the animate prop
AnimateChange ==
    /\ alive /\ idle
    /\ reveal < MaxReveals
    /\ animate' = ~animate
    /\ EffectRuns(~animate)
    /\ UNCHANGED << propVars, data, mounted, hiddenSeries, hoverVars, frameQueue, now >>

\* the host unmounts the instance: the last effect's cleanup runs
Unmount ==
    /\ alive /\ idle
    /\ mounted' = FALSE
    /\ rafQueue' = RafAfterCleanup
    /\ timer' = TimerAfterCleanup
    /\ UNCHANGED << propVars, data, animate, animationProgress, hiddenSeries,
                    hoverVars, frameQueue, now, reveal, lastWrite, sawZero,
                    settled >>

\* the browser starts a frame: the registered callbacks will run with its timestamp
BeginFrame ==
    /\ idle
    /\ rafQueue # << >>
    /\ now + FrameStep <= MaxTime
    /\ now' = now + FrameStep
    /\ frameQueue' = rafQueue
    /\ rafQueue' = << >>
    /\ UNCHANGED << propVars, data, animate, mounted, animationProgress,
                    hiddenSeries, hoverVars, timer, reveal, lastWrite, sawZero,
                    settled >>

\* the next callback of the frame runs: step(timestamp)
RunCallback ==
    /\ frameQueue # << >>
    /\ LET cb == Head(frameQueue)
           start == IF cb.start = 0 THEN now ELSE cb.start
           progress == StepProgress(now, start, Duration)
       IN  /\ lastWrite' = progress
           /\ animationProgress' = (IF alive THEN progress ELSE animationProgress)
           /\ sawZero' = (sawZero \/ (alive /\ progress = Zero))
           /\ rafQueue' = (IF Reschedules(progress)
                           THEN Append(rafQueue, [start |-> start, reveal |-> cb.reveal])
                           ELSE rafQueue)
    /\ frameQueue' = Tail(frameQueue)
    /\ UNCHANGED << propVars, data, animate, mounted, hiddenSeries, hoverVars, timer,
                    now, reveal, settled >>

\* Bar, Sparkline: the 50 ms timer fires
TimerFire ==
    /\ timer /\ idle
    /\ timer' = FALSE
    /\ animationProgress' = One
    /\ lastWrite' = One
    /\ UNCHANGED << propVars, data, animate, mounted, hiddenSeries, hoverVars, rafQueue,
                    frameQueue, now, reveal, sawZero, settled >>

\* an updater that only ever puts the index in
PutIn(prev, index) == prev \cup {index}

\* the updater of both handlers: prev => a copy of prev with index taken out
\* if it was in, put in if it was not
Toggled(prev, index) == IF index \in prev THEN prev \ {index} ELSE prev \cup {index}

\* ChartLegend.handleToggle: the second argument of onToggle, read from the
\* hiddenItems of the render the handler was made in
ToggleActive(index) == index \in hiddenItems

\* a toggle handler that also puts the hover state away
ToggleClearingHover(i) ==
    /\ alive /\ idle
    /\ chart \in LegendCharts /\ shouldShowLegend
    /\ i \in LegendEntries
    /\ hiddenItems' = (IF ~legendInteractive THEN hiddenItems ELSE Toggled(hiddenItems, i))
    /\ hiddenSeries' = (IF ~legendInteractive THEN hiddenSeries ELSE Toggled(hiddenSeries, i))
    /\ crosshair' = NoCrosshair
    /\ tooltip' = NoTooltip
    /\ UNCHANGED << chart, variant, yKeys, legendPosition, legendInteractive, legendSize,
                    tipVars, selectVars, pickerVars, data, animate, mounted,
                    animationProgress, hoveredBarIndex, hoveredIndex, hoveredPoint,
                    pointer, rafQueue, frameQueue, timer, now, reveal, lastWrite,
                    sawZero, settled >>

\* a click or key press on legend entry i: ChartLegend.handleToggle, and
\* through onToggle the chart's handleLegendToggle
LegendToggle(i) ==
    /\ alive /\ idle
    /\ chart \in LegendCharts /\ shouldShowLegend
    /\ i \in LegendEntries
    /\ hiddenItems' = (IF ~legendInteractive THEN hiddenItems ELSE Toggled(hiddenItems, i))
    /\ hiddenSeries' = (IF ~legendInteractive THEN hiddenSeries ELSE Toggled(hiddenSeries, i))
    /\ UNCHANGED << chart, variant, yKeys, legendPosition, legendInteractive, legendSize,
                    tipVars, selectVars, pickerVars, data, animate, mounted, animationProgress, hoverVars,
                    rafQueue, frameQueue, timer, now, reveal, lastWrite, sawZero,
                    settled >>

\* AreaChart.handleChartMouseMove, the pointer at x = px in the svg
AreaMouseMove(px) ==
    /\ chart = "Area"
    /\ alive /\ idle
    /\ MayEnter(<< >>)
    /\ pointer' = [over |-> TRUE, x |-> px, y |-> Zero, target |-> << >>]
    /\ IF Len(data) = 0
       THEN UNCHANGED << crosshair, tooltip >>
       ELSE LET mouseX == JAdd(px, Num(svgLeft))
                nearestIndex == SnapIndex(mouseX)
                snapX == SnapX(nearestIndex)
                points == CrosshairPoints(nearestIndex.n + 1)
            IN  /\ crosshair' = [visible |-> TRUE, x |-> snapX, index |-> nearestIndex,
                                 points |-> points]
                \* without an item the tooltip content throws before setTooltip
                /\ tooltip' = (IF ~HasItem(nearestIndex) THEN tooltip
                               ELSE [visible |-> TRUE, x |-> snapX,
                                     y |-> IF Len(points) > 0 THEN JMinOf(PointYs(points))
                                           ELSE Zero])
    /\ UNCHANGED << propVars, data, animate, mounted, animationProgress, hiddenSeries,
                    hoveredBarIndex, hoveredIndex, hoveredPoint, rafQueue, frameQueue,
                    timer, now, reveal, lastWrite, sawZero,
                    settled >>

\* BarChart.handleChartMouseMove, the pointer at pos = << x, y >> in the svg
BarMouseMove(pos) ==
    /\ chart = "Bar"
    /\ alive /\ idle
    /\ MayEnter(<< >>)
    /\ pointer' = [over |-> TRUE, x |-> pos[1], y |-> pos[2], target |-> << >>]
    /\ LET mouseX == JAdd(pos[1], Num(svgLeft))
           mouseY == JAdd(pos[2], Num(svgTop))
           nearestIndex == BarSnapIndex(mouseX, mouseY)
       IN  IF Len(data) = 0 \/ nearestIndex = hoveredBarIndex
           THEN UNCHANGED << hoveredBarIndex, tooltip >>
           ELSE /\ hoveredBarIndex' = nearestIndex
                \* without an item the tooltip content throws before setTooltip
                /\ tooltip' = (IF ~HasItem(nearestIndex) THEN tooltip
                               ELSE BarTooltip(nearestIndex.n))
    /\ UNCHANGED << propVars, data, animate, mounted, animationProgress, hiddenSeries,
                    crosshair, hoveredIndex, hoveredPoint, rafQueue, frameQueue,
                    timer, now, reveal, lastWrite, sawZero,
                    settled >>

\* PieChart.handleMouseMove on the path of slice i
PieMouseMove(i, pos) ==
    /\ chart = "Pie"
    /\ alive /\ idle
    /\ i \in 1..Len(data) /\ i \notin hiddenSeries
    /\ JLt(Zero, SliceShare(i))
    /\ MayEnter(<< i >>)
    /\ pointer' = [over |-> TRUE, x |-> pos[1], y |-> pos[2], target |-> << i >>]
    /\ hoveredIndex' = Num(i - 1)
    /\ tooltip' = [visible |-> TRUE, x |-> pos[1], y |-> pos[2]]
    /\ UNCHANGED << propVars, data, animate, mounted, animationProgress, hiddenSeries,
                    crosshair, hoveredBarIndex, hoveredPoint, rafQueue, frameQueue,
                    timer, now, reveal, lastWrite, sawZero,
                    settled >>

\* RadarChart: onMouseMove of the dot of series di at category ci
RadarMouseMove(di, ci, pos) ==
    /\ chart = "Radar"
    /\ alive /\ idle
    /\ di \in 1..Len(data) /\ di \notin hiddenSeries
    /\ ci \in 1..Len(categories)
    /\ MayEnter(<< di, ci >>)
    /\ pointer' = [over |-> TRUE, x |-> pos[1], y |-> pos[2], target |-> << di, ci >>]
    /\ hoveredPoint' = << di - 1, ci - 1 >>
    /\ tooltip' = [visible |-> TRUE, x |-> pos[1], y |-> pos[2]]
    /\ UNCHANGED << propVars, data, animate, mounted, animationProgress, hiddenSeries,
                    crosshair, hoveredBarIndex, hoveredIndex, rafQueue, frameQueue,
                    timer, now, reveal, lastWrite, sawZero,
                    settled >>

\* the pointer leaves the element it was over: handleChartMouseLeave (Area, Bar),
\* handleMouseLeave (Pie), the dot's onMouseLeave (Radar)
MouseLeave ==
    /\ chart \in LegendCharts
    /\ alive /\ idle
    /\ pointer.over /\ TargetRendered(pointer.target)
    /\ pointer' = NoPointer
    /\ crosshair' = (IF chart = "Area" THEN NoCrosshair ELSE crosshair)
    /\ hoveredBarIndex' = (IF chart = "Bar" THEN NoBar ELSE hoveredBarIndex)
    /\ hoveredIndex' = (IF chart = "Pie" THEN Null ELSE hoveredIndex)
    /\ hoveredPoint' = (IF chart = "Radar" THEN << >> ELSE hoveredPoint)
    /\ tooltip' = LeaveTooltip(tooltip)
    /\ UNCHANGED << propVars, data, animate, mounted, animationProgress, hiddenSeries,
                    rafQueue, frameQueue, timer, now, reveal, lastWrite, sawZero,
                    settled >>

MouseMove ==
    \/ \E px \in AreaPointerXs : AreaMouseMove(px)
    \/ \E pos \in BarPointers : BarMouseMove(pos)
    \/ \E i \in 1..MaxPoints, pos \in ShapePointers : PieMouseMove(i, pos)
    \/ \E di \in 1..MaxPoints, ci \in 1..Len(categories), pos \in ShapePointers :
          RadarMouseMove(di, ci, pos)

Next ==
    \/ \E d \in SampleData : DataChange(d)
    \/ AnimateChange
    \/ Unmount
    \/ BeginFrame
    \/ RunCallback
    \/ TimerFire
    \/ \E i \in 1..MaxPoints : LegendToggle(i)
    \/ MouseMove
    \/ MouseLeave

Spec == Init /\ [][Next]_vars

-----------------------------------------------------------------------------
(* The animation driver under prop changes and unmount, for a chart without *)
(* a legend: one series, nothing hidden, no pointer                         *)

DriverInit ==
    /\ Init
    /\ yKeys = << 1 >>
    /\ legendPosition = "bottom"
    /\ ~legendInteractive

DriverNext ==
    \/ \E d \in SampleData : DataChange(d)
    \/ AnimateChange
    \/ Unmount
    \/ BeginFrame
    \/ RunCallback
    \/ TimerFire

DriverSpec == DriverInit /\ [][DriverNext]_vars

\* animate stays on; only the data changes
RevealInit == DriverInit /\ animate

RevealNext ==
    \/ \E d \in SampleData : DataChange(d)
    \/ BeginFrame
    \/ RunCallback
    \/ TimerFire

RevealSpec == RevealInit /\ [][RevealNext]_vars

\* animate on and no prop change: the browser delivers every frame it was
\* asked for and fires every timer that is pending
FrameNext ==
    \/ BeginFrame
    \/ RunCallback
    \/ TimerFire

FairInit == Init /\ animate

\* the steps that take a callback off the frame being run: those of RunCallback
CallbackRuns == frameQueue # << >> /\ frameQueue' = Tail(frameQueue)

FairSpec ==
    /\ FairInit
    /\ [][FrameNext]_vars
    /\ WF_vars(BeginFrame)
    /\ WF_frameQueue(CallbackRuns)
    /\ WF_vars(TimerFire)

\* the pointer, the legend and the frames of a mounted chart whose props stay
HoverNext ==
    \/ MouseMove
    \/ MouseLeave
    \/ \E i \in 1..MaxPoints : LegendToggle(i)
    \/ BeginFrame
    \/ RunCallback
    \/ TimerFire

\* animate is on: a chart mounted without it is in the state of one whose
\* reveal has ended.  AreaChart's curved and stepped variants differ from
\* straight only in the commands of the paths, which no handler reads.
HoverInit == Init /\ animate /\ variant \notin {"curved", "stepped"}

HoverSpec == HoverInit /\ [][HoverNext]_vars

\* an AreaChart at rest under the pointer while its parent changes the data
\* and the user toggles series
StaleInit ==
    /\ Init
    /\ chart = "Area" /\ variant \in {"straight", "stacked"}
    /\ ~animate
    /\ legendPosition = "bottom"
    /\ Len(yKeys) > 1 => legendInteractive

StaleNext ==
    \/ \E d \in SampleData : DataChange(d)
    \/ \E i \in 1..MaxPoints : LegendToggle(i)
    \/ \E px \in AreaPointerXs : AreaMouseMove(px)
    \/ MouseLeave

StaleSpec == StaleInit /\ [][StaleNext]_vars

-----------------------------------------------------------------------------
(* SparklineChart: scale and points.  Its data items are plain numbers, read *)
(* here from the first field of an item.                                     *)

SparkHeight == 30

\* the expression (v || 1)
OrOne(a) == IF Falsy(ToNum(a)) THEN One ELSE a

SparkValues == [i \in 1..Len(data) |-> data[i][1]]

\* const maxValue = Math.max(...data)
SparkMaxValue == JMaxOf(SparkValues)

\* const minValue = Math.min(...data)
SparkMinValue == JMinOf(SparkValues)

\* const range = maxValue - minValue || 1
SparkRange == OrOne(JSub(SparkMaxValue, SparkMinValue))

\* const padding = height * 0.1
SparkPadding == Rat(SparkHeight, 10)

\* getY: height - padding - ((value - minValue) / range) * (height - padding * 2)
SparkGetY(value) ==
    JSub(JSub(Num(SparkHeight), SparkPadding),
         JMul(JDiv(JSub(value, SparkMinValue), SparkRange),
              JSub(Num(SparkHeight), JMul(SparkPadding, Num(2)))))

SparkPoints ==
    [i \in 1..Len(data) |->
        [x |-> SparkX(i - 1), y |-> SparkGetY(data[i][1]), value |-> data[i][1]]]

-----------------------------------------------------------------------------
(* RadarChart: the radius of a data point *)

\* const radius = Math.min(centerX, centerY) - 40, at the default 300 x 300
RadarRadius == 110

\* getPoint: const r = (value / maxValue) * radius * animationProgress
RadarR(value) ==
    JMul(JMul(JDiv(value, RadarMaxValue), Num(RadarRadius)), animationProgress)

\* renderData: the r of every dot of every series that is not hidden
RadarRs ==
    {RadarR(OrZero(data[i][categories[c]])) :
        i \in (1..Len(data)) \ hiddenSeries, c \in 1..Len(categories)}

-----------------------------------------------------------------------------
(* PieChart: slices and legend.  Angles are in degrees: the code's radians   *)
(* with Math.PI read as 180.                                                 *)

isSemi == chart = "Pie" /\ variant = "semi"

\* const totalAngle = isSemi ? Math.PI : 2 * Math.PI
PieTotalAngle == IF isSemi THEN Num(180) ELSE Num(360)

\* const startAngle = isSemi ? -Math.PI : -Math.PI / 2
PieStartAngle == IF isSemi THEN Num(0 - 180) ELSE Num(0 - 90)

\* const angle = total > 0 ? (value / total) * totalAngle * animationProgress : 0
SliceAngle(i) ==
    IF i \in hiddenSeries THEN Zero
    ELSE IF JLt(Zero, total)
    THEN JMul(JMul(JDiv(OrZero(data[i][1]), total), PieTotalAngle), animationProgress)
    ELSE Zero

\* every slice starting where the sweep starts
RestartAngle(i) == PieStartAngle

\* currentAngle when the map reaches item i: a hidden item leaves it as it is
RECURSIVE CurrentAngle(_)
CurrentAngle(i) ==
    IF i = 1 THEN PieStartAngle ELSE JAdd(CurrentAngle(i - 1), SliceAngle(i - 1))

slices ==
    [i \in 1..Len(data) |->
        IF i \in hiddenSeries
        THEN [value |-> Zero, percentage |-> Zero, hidden |-> TRUE,
              startAngle |-> CurrentAngle(i), endAngle |-> CurrentAngle(i)]
        ELSE [value |-> OrZero(data[i][1]),
              percentage |-> IF JLt(Zero, total)
                             THEN JMul(JDiv(OrZero(data[i][1]), total), Num(100))
                             ELSE Zero,
              hidden |-> FALSE,
              startAngle |-> CurrentAngle(i),
              endAngle |-> JAdd(CurrentAngle(i), SliceAngle(i))]]

\* the slices drawn as hoverable paths: slices.filter(s => !s.hidden)
RenderedSlices == {i \in 1..Len(data) : ~slices[i].hidden}

\* legendItems: the percentage in the label of entry i, << >> for a hidden
\* entry: total > 0 ? ((item[valueKey] / total) * 100).toFixed(1) : 0
LegendPercentage(i) ==
    IF i \in hiddenSeries THEN << >>
    ELSE IF JLt(Zero, total)
    THEN << ToFixed1(JMul(JDiv(data[i][1], total), Num(100))) >>
    ELSE << Zero >>

\* the numbers PieChart puts into its paths, labels and legend
PieNumbers ==
    IF chart # "Pie" THEN {}
    ELSE UNION {{slices[i].startAngle, slices[i].endAngle, slices[i].percentage} :
                    i \in RenderedSlices}
         \cup UNION {Range(LegendPercentage(i)) : i \in 1..Len(data)}

-----------------------------------------------------------------------------
(* Colours and legend entries.  A colour is the palette it is taken from and *)
(* the index in it; series, slices and entries are counted from 1, the       *)
(* code's indices from 0.                                                    *)

MultiColorCount == 8
PaletteSize == 7

\* multiColors[index % multiColors.length]
MultiColor(index) == << "multi", index % MultiColorCount >>

\* getColor(color, 0) with the default palette
BaseColor == << "violet", 0 >>

\* AreaChart.getAreaColor, RadarChart.getSeriesColor
getAreaColor(index) == IF isMultiSeries THEN MultiColor(index) ELSE BaseColor

\* BarChart.getBarColor(dataIndex, seriesIndex)
getBarColor(seriesIndex) ==
    IF variant = "stacked" /\ isMultiSeries THEN MultiColor(seriesIndex) ELSE BaseColor

\* PieChart.getSliceColor
getSliceColor(index) ==
    LET q == PaletteSize \div Len(data)
        step == IF q > 1 THEN q ELSE 1
        colorIndex == IF index * step < PaletteSize - 1 THEN index * step
                      ELSE PaletteSize - 1
    IN  << "violet", colorIndex >>

\* a colouring that numbers the series that are visible
RankColor(i) == MultiColor(Cardinality({j \in 1..i : j \notin hiddenSeries}) - 1)

\* the colour series (slice) i is drawn in
SeriesColor(i) ==
    CASE chart \in {"Area", "Radar"} -> getAreaColor(i - 1)
      [] chart = "Bar" -> getBarColor(IF variant = "stacked" /\ isMultiSeries THEN i - 1 ELSE 0)
      [] OTHER -> getSliceColor(i - 1)

\* the series (slices) that are drawn
DrawnSeries ==
    IF chart = "Bar" /\ ~(variant = "stacked" /\ isMultiSeries) THEN {1}
    ELSE LegendEntries \ hiddenSeries

\* legendItems: colour, label (the key or the item it names) and inactive flag
legendItems ==
    [i \in 1..Cardinality(LegendEntries) |->
        [color |-> CASE chart \in {"Area", "Radar"} -> getAreaColor(i - 1)
                     [] chart = "Bar" ->
                            IF isMultiSeries THEN MultiColor(i - 1) ELSE BaseColor
                     [] OTHER -> getSliceColor(i - 1),
         label |-> i,
         inactive |-> i \in hiddenSeries]]

\* ChartLegend: const isHidden = hiddenItems.has(i) || item.inactive
isHidden(i) == i \in hiddenItems \/ legendItems[i].inactive

-----------------------------------------------------------------------------
(* The coordinates a render computes through the value scale *)

\* the y of every point drawn (AreaChart), the length of every bar drawn
\* (BarChart), the r of every dot (RadarChart), the y of every point
\* (SparklineChart)
PlottedCoordinates ==
    CASE chart = "Area" ->
            {allPoints[ki].points[i].y : ki \in Range(visibleSeries), i \in 1..Len(data)}
      [] chart = "Bar" ->
            {BarLength(OrZero(data[i][barKeys[j]])) :
                i \in 1..Len(data), j \in 1..Len(barKeys)}
      [] chart = "Radar" -> RadarRs
      [] chart = "Sparkline" -> {SparkPoints[i].y : i \in 1..Len(data)}
      [] OTHER -> {}

\* AreaChart: the value a drawn point stands at (its own value on top of its
\* stackedBase); BarChart: the value the top of a drawn bar stands at (in a
\* stack, the values of the bars below it and its own)
PlottedValues ==
    CASE chart = "Area" ->
            {JAdd(allPoints[ki].points[i].value, allPoints[ki].points[i].stackedBase) :
                ki \in Range(visibleSeries), i \in 1..Len(data)}
      [] chart = "Bar" ->
            {RowSum(data[i], SubSeq(barKeys, 1, j)) :
                i \in 1..Len(data), j \in 1..Len(barKeys)}
      [] OTHER -> {}

\* currentY never moved: nothing counted as lying below a bar
BarTopUnmoved(i, j) == Zero

\* BarChart: how far the top of bar j of item i lies from the base line:
\* currentY + barHeight in a stack, barHeight (barLength) otherwise
BarTop(i, j) ==
    SeqSum([m \in 1..j |-> BarLength(OrZero(data[i][barKeys[m]]))])

\* how far every drawn point or bar top lies from the base line of the plot
\* rectangle, along the value axis
PlotOffsets ==
    CASE chart = "Area" ->
            {JSub(Num(chartY + chartHeight), allPoints[ki].points[i].y) :
                ki \in Range(visibleSeries), i \in 1..Len(data)}
      [] chart = "Bar" ->
            {BarTop(i, j) : i \in 1..Len(data), j \in 1..Len(barKeys)}
      [] OTHER -> {}

\* BarChart, stacked with several series: the rect of every visible series of
\* item i, bottom-up: y = chartHeight - currentY - barHeight, height = barHeight
StackedSegments(i) ==
    [k \in 1..Len(barKeys) |->
        LET barHeight == BarLength(OrZero(data[i][barKeys[k]]))
        IN  [series |-> barKeys[k],
             y |-> JSub(JSub(Num(chartHeight), BarTop(i, k - 1)), barHeight),
             height |-> barHeight]]

\* the length of the plot rectangle along the value axis
PlotExtent == IF isHorizontal THEN chartWidth ELSE chartHeight

\* where the ticks of the value axis are put (AreaChart, BarChart)
TickCoordinates ==
    IF chart \in {"Area", "Bar"}
    THEN {TickPosition(tickValues[i]) : i \in 1..Ticks}
    ELSE {}

\* the values the scale is made from are all 0, so maxValue = minValue
ZeroRange ==
    CASE chart \in {"Area", "Bar"} -> \A v \in Range(FlatValues(scaleKeys)) : v = Zero
      [] chart = "Radar" -> RadarMaxValue = Zero
      [] chart = "Sparkline" -> \A v \in Range(SparkValues) : v = Zero
      [] OTHER -> FALSE

-----------------------------------------------------------------------------
(* The geometry of a chart at rest: animate is off, so the chart is drawn in *)
(* full, and the legend is interactive.  The data are drawn from every array *)
(* of at most MaxItems items whose first field is missing, 0, 1 or MaxValue  *)
(* and whose second field is 0 or 1.                                         *)

MaxItems == 2

PlotItems == {<< a, b >> : a \in {Undefined, Zero, One, Num(MaxValue)}, b \in {Zero, One}}

PlotData == UNION {[1..n -> PlotItems] : n \in 1..MaxItems}

PlotCharts == {"Area", "Bar", "Pie", "Radar", "Sparkline"}

\* PieChart's semi variant halves the sweep
PlotVariants(c) == IF c = "Pie" THEN {"default", "semi"} ELSE Variants(c)

PlotInit ==
    /\ chart \in PlotCharts
    /\ variant \in PlotVariants(chart)
    /\ yKeys \in (IF chart \in {"Area", "Bar"} THEN {<< 1 >>, << 1, 2 >>} ELSE {<< 1 >>})
    /\ data \in PlotData
    /\ animate = FALSE
    /\ legendPosition = "bottom"
    /\ legendInteractive = TRUE
    /\ legendSize = 0
    /\ mounted = TRUE
    /\ hiddenSeries = {}
    /\ crosshair = NoCrosshair
    /\ tooltip = NoTooltip
    /\ hoveredBarIndex = NoBar
    /\ hoveredIndex = Null
    /\ hoveredPoint = << >>
    /\ rafQueue = << >>
    /\ frameQueue = << >>
    /\ timer = FALSE
    /\ now = 0
    /\ pointer = NoPointer
    /\ reveal = 1
    /\ animationProgress = InitialProgress(animate)
    /\ lastWrite = Undefined
    /\ sawZero = FALSE
    /\ settled = FALSE
    /\ layout = NoLayout
    /\ position = InitialPosition
    /\ hiddenItems = {}
    /\ NoSelect
    /\ NoPicker

PlotNext == \E i \in 1..MaxItems : LegendToggle(i)

PlotSpec == PlotInit /\ [][PlotNext]_vars

-----------------------------------------------------------------------------
(* The reveal of a curved AreaChart of one series whose values rise or fall  *)
(* strictly from point to point                                              *)

MaxCurveValue == 5

StrictlyMonotone(vs) ==
    \/ \A i \in 1..(Len(vs) - 1) : vs[i] < vs[i + 1]
    \/ \A i \in 1..(Len(vs) - 1) : vs[i] > vs[i + 1]

CurveValues ==
    UNION {{vs \in [1..n -> 0..MaxCurveValue] : StrictlyMonotone(vs)} : n \in 3..MaxPoints}

CurveData == {[i \in 1..Len(vs) |-> Item(vs[i], 0)] : vs \in CurveValues}

CurveInit ==
    /\ chart = "Area"
    /\ variant = "curved"
    /\ yKeys = << 1 >>
    /\ data \in CurveData
    /\ animate \in BOOLEAN
    /\ legendPosition = "bottom"
    /\ legendInteractive = FALSE
    /\ legendSize = 0
    /\ mounted = TRUE
    /\ hiddenSeries = {}
    /\ crosshair = NoCrosshair
    /\ tooltip = NoTooltip
    /\ hoveredBarIndex = NoBar
    /\ hoveredIndex = Null
    /\ hoveredPoint = << >>
    /\ rafQueue = (IF animate THEN << [start |-> 0, reveal |-> 1] >> ELSE << >>)
    /\ frameQueue = << >>
    /\ timer = FALSE
    /\ now = 0
    /\ pointer = NoPointer
    /\ reveal = 1
    /\ animationProgress = InitialProgress(animate)
    /\ lastWrite = Undefined
    /\ sawZero = (animationProgress = Zero)
    /\ settled = FALSE
    /\ layout = NoLayout
    /\ position = InitialPosition
    /\ hiddenItems = {}
    /\ NoSelect
    /\ NoPicker

CurveNext ==
    \/ BeginFrame
    \/ RunCallback

CurveSpec == CurveInit /\ [][CurveNext]_vars

-----------------------------------------------------------------------------
(* ChartTooltip of a mounted chart whose handlers move and hide the tooltip  *)

MaxAnchor == 400

\* window widths, container offsets, measured tooltip sizes
ViewportWidths == {300, 400}
ContainerLefts == {0, 40}
ContainerTops == {0, 60}
TooltipWidths == {60, 150, 300}
TooltipHeight == 40

Layouts ==
    {l \in {[containerLeft |-> Num(cl), containerTop |-> Num(ct), tooltipWidth |-> Num(w),
             tooltipHeight |-> Num(TooltipHeight), viewportWidth |-> Num(vw)] :
               cl \in ContainerLefts, ct \in ContainerTops, w \in TooltipWidths,
               vw \in ViewportWidths} :
        JLe(l.tooltipWidth, l.viewportWidth)}

\* anchors a chart's handlers pass, measured from the container
AnchorXs == {0, 5, 30, 100} \cup {MaxAnchor - 150, MaxAnchor - 110, MaxAnchor - 45}
AnchorYs == {20, 120}

\* a handler of the chart shows the tooltip at (x, y); ChartTooltip renders
\* and its effect measures and positions it
ShowTooltip(x, y) ==
    /\ mounted
    /\ tooltip' = [visible |-> TRUE, x |-> Num(x), y |-> Num(y)]
    /\ position' = Placed(Num(x), Num(y), layout)
    /\ UNCHANGED << chart, variant, yKeys, legendPosition, legendInteractive,
                    legendSize, layout, hiddenItems, selectVars, pickerVars, data, animate, mounted, animationProgress,
                    hiddenSeries, crosshair, hoveredBarIndex, hoveredIndex,
                    hoveredPoint, rafQueue, frameQueue, timer, now, pointer, reveal,
                    lastWrite, sawZero, settled >>

\* a handler hides the tooltip: the effect returns at once, ChartTooltip
\* renders nothing
HideTooltip ==
    /\ mounted /\ tooltip.visible
    /\ tooltip' = [tooltip EXCEPT !.visible = FALSE]
    /\ UNCHANGED << chart, variant, yKeys, legendPosition, legendInteractive,
                    legendSize, layout, position, hiddenItems, selectVars, pickerVars,
                    data, animate, mounted,
                    animationProgress, hiddenSeries, crosshair, hoveredBarIndex,
                    hoveredIndex, hoveredPoint, rafQueue, frameQueue, timer, now,
                    pointer, reveal, lastWrite, sawZero, settled >>

TooltipInit ==
    /\ chart = "Pie"
    /\ variant = "default"
    /\ yKeys = << 1 >>
    /\ data = << Item(1, 1) >>
    /\ animate = FALSE
    /\ legendPosition = "bottom"
    /\ legendInteractive = FALSE
    /\ legendSize = 0
    /\ mounted = TRUE
    /\ hiddenSeries = {}
    /\ crosshair = NoCrosshair
    /\ tooltip = NoTooltip
    /\ hoveredBarIndex = NoBar
    /\ hoveredIndex = Null
    /\ hoveredPoint = << >>
    /\ rafQueue = << >>
    /\ frameQueue = << >>
    /\ timer = FALSE
    /\ now = 0
    /\ pointer = NoPointer
    /\ reveal = 1
    /\ animationProgress = One
    /\ lastWrite = Undefined
    /\ sawZero = FALSE
    /\ settled = FALSE
    /\ layout \in Layouts
    /\ position = InitialPosition
    /\ hiddenItems = {}
    /\ NoSelect
    /\ NoPicker

TooltipNext ==
    \/ \E x \in AnchorXs, y \in AnchorYs : ShowTooltip(x, y)
    \/ HideTooltip

TooltipSpec == TooltipInit /\ [][TooltipNext]_vars

-----------------------------------------------------------------------------
(* The legend of a chart at rest: clicks on its entries, and changes of the  *)
(* legendPosition prop, which unmount the ChartLegend rendered at the old    *)
(* position and mount a new one at the new position                         *)

LegendData == << Item(1, MaxValue), Item(MaxValue, 1) >>

\* the parent passes another legendPosition
LegendPositionChange(p) ==
    /\ alive /\ idle
    /\ chart \in LegendCharts /\ shouldShowLegend
    /\ p \in LegendPositions /\ p # legendPosition
    /\ legendPosition' = p
    /\ legendSize' \in (IF chart \in {"Area", "Bar"} /\ p \in {"top", "left"}
                        THEN LegendSizes ELSE {0})
    /\ hiddenItems' = {}
    /\ UNCHANGED << chart, variant, yKeys, legendInteractive, tipVars, selectVars,
                    pickerVars, data,
                    animate,
                    mounted, animationProgress, hiddenSeries, hoverVars, rafQueue,
                    frameQueue, timer, now, reveal, lastWrite, sawZero, settled >>

LegendInit ==
    /\ chart \in LegendCharts
    /\ variant \in PlotVariants(chart)
    /\ yKeys = (IF chart \in {"Area", "Bar"} THEN << 1, 2 >> ELSE << 1 >>)
    /\ data = LegendData
    /\ animate = FALSE
    /\ legendPosition \in LegendPositions
    /\ legendInteractive \in BOOLEAN
    /\ legendSize \in (IF chart \in {"Area", "Bar"} /\ legendPosition \in {"top", "left"}
                       THEN LegendSizes ELSE {0})
    /\ mounted = TRUE
    /\ hiddenSeries = {}
    /\ crosshair = NoCrosshair
    /\ tooltip = NoTooltip
    /\ hoveredBarIndex = NoBar
    /\ hoveredIndex = Null
    /\ hoveredPoint = << >>
    /\ rafQueue = << >>
    /\ frameQueue = << >>
    /\ timer = FALSE
    /\ now = 0
    /\ pointer = NoPointer
    /\ reveal = 1
    /\ animationProgress = One
    /\ lastWrite = Undefined
    /\ sawZero = FALSE
    /\ settled = FALSE
    /\ layout = NoLayout
    /\ position = InitialPosition
    /\ hiddenItems = {}
    /\ NoSelect
    /\ NoPicker

LegendNext ==
    \/ \E i \in 1..MaxItems : LegendToggle(i)
    \/ \E p \in LegendPositions : LegendPositionChange(p)

LegendSpec == LegendInit /\ [][LegendNext]_vars

-----------------------------------------------------------------------------
(* MultiSelect, uncontrolled (no value prop), not searchable, enabled, with  *)
(* options given as a prop                                                   *)

MaxOptions == 3
MaxCalls == 5

\* the values of the options prop, in order
normalizedOptions == [i \in 1..MaxOptions |-> i]

\* searchable is false: the options are not filtered
filteredOptions == normalizedOptions

\* value is undefined: the selection is the internal state
actualValue == internalValue

Includes(arr, v) == \E i \in 1..Len(arr) : arr[i] = v

\* arr.filter(x => x !== v)
FilterOut(arr, v) == SelectSeq(arr, LAMBDA x : x # v)

\* no chart in the tree: the chart variables rest
NoChart ==
    /\ variant = "default"
    /\ yKeys = << 1 >>
    /\ data = << >>
    /\ animate = FALSE
    /\ legendPosition = "bottom"
    /\ legendInteractive = FALSE
    /\ legendSize = 0
    /\ mounted = TRUE
    /\ hiddenSeries = {}
    /\ crosshair = NoCrosshair
    /\ tooltip = NoTooltip
    /\ hoveredBarIndex = NoBar
    /\ hoveredIndex = Null
    /\ hoveredPoint = << >>
    /\ rafQueue = << >>
    /\ frameQueue = << >>
    /\ timer = FALSE
    /\ now = 0
    /\ pointer = NoPointer
    /\ reveal = 1
    /\ animationProgress = One
    /\ lastWrite = Undefined
    /\ sawZero = FALSE
    /\ settled = FALSE
    /\ layout = NoLayout
    /\ position = InitialPosition
    /\ hiddenItems = {}

chartVars == << chart, variant, yKeys, data, animate, legendPosition,
                legendInteractive, legendSize, mounted, animationProgress,
                hiddenSeries, crosshair, tooltip, hoveredBarIndex, hoveredIndex,
                hoveredPoint, rafQueue, frameQueue, timer, now, pointer, reveal,
                lastWrite, sawZero, settled, tipVars, hiddenItems >>

\* a limit that is never reached
NeverAtMax == FALSE

\* handleSelect: maxSelections && actualValue.length >= maxSelections
AtMax == maxSelections # 0 /\ Len(actualValue) >= maxSelections

\* the option row: maxSelections && actualValue.length >= maxSelections && !isSelected
isMaxReached(v) ==
    maxSelections # 0 /\ Len(actualValue) >= maxSelections /\ ~Includes(actualValue, v)

\* handleSelect(optionValue): the new selection, << >> around it, or << >>
\* when it returns before writing
SelectResult(optionValue) ==
    IF Includes(actualValue, optionValue) THEN << FilterOut(actualValue, optionValue) >>
    ELSE IF AtMax THEN << >>
    ELSE << Append(actualValue, optionValue) >>

\* handleSelect's writes: setInternalValue(newValue) and onChange(newValue, ...)
Select(optionValue) ==
    LET r == SelectResult(optionValue)
    IN  IF r = << >> THEN UNCHANGED << internalValue, onChangeCalls >>
        ELSE /\ onChangeCalls < MaxCalls
             /\ internalValue' = r[1]
             /\ onChangeCalls' = onChangeCalls + 1

\* handleToggle: a click on the trigger
SelectToggle ==
    /\ chart = "MultiSelect"
    /\ isOpen' = ~isOpen
    /\ highlightedIndex' = (IF isOpen THEN 0 - 1 ELSE highlightedIndex)
    /\ UNCHANGED << chartVars, pickerVars, internalValue, maxSelections, onChangeCalls >>

\* onMouseEnter of the option row at index
OptionEnter(index) ==
    /\ chart = "MultiSelect" /\ isOpen
    /\ index \in 0..(Len(filteredOptions) - 1)
    /\ highlightedIndex' = index
    /\ UNCHANGED << chartVars, pickerVars, isOpen, internalValue, maxSelections, onChangeCalls >>

\* onClick of the option row of value v: !isMaxReached && handleSelect(opt.value, e)
OptionClick(v) ==
    /\ chart = "MultiSelect" /\ isOpen
    /\ Includes(filteredOptions, v)
    /\ IF isMaxReached(v) THEN UNCHANGED << internalValue, onChangeCalls >>
       ELSE Select(v)
    /\ UNCHANGED << chartVars, pickerVars, isOpen, highlightedIndex, maxSelections >>

\* handleRemoveChip: the x of the chip of a selected option
RemoveChip(v) ==
    /\ chart = "MultiSelect"
    /\ Includes(actualValue, v) /\ Includes(normalizedOptions, v)
    /\ onChangeCalls < MaxCalls
    /\ internalValue' = FilterOut(actualValue, v)
    /\ onChangeCalls' = onChangeCalls + 1
    /\ UNCHANGED << chartVars, pickerVars, isOpen, highlightedIndex, maxSelections >>

\* handleClear: the clear button, rendered while something is selected
Clear ==
    /\ chart = "MultiSelect"
    /\ Len(actualValue) > 0
    /\ onChangeCalls < MaxCalls
    /\ internalValue' = << >>
    /\ onChangeCalls' = onChangeCalls + 1
    /\ UNCHANGED << chartVars, pickerVars, isOpen, highlightedIndex, maxSelections >>

Keys == {"Enter", "Escape", "ArrowDown", "ArrowUp"}

\* the Enter key selects: the dropdown is open and an option is highlighted
EnterSelects ==
    isOpen /\ highlightedIndex >= 0 /\ highlightedIndex < Len(filteredOptions)

\* handleKeyDown
KeyDown(key) ==
    /\ chart = "MultiSelect"
    /\ key \in Keys
    /\ CASE key = "Enter" ->
              IF EnterSelects
              THEN /\ Select(filteredOptions[highlightedIndex + 1])
                   /\ UNCHANGED << isOpen, highlightedIndex >>
              ELSE /\ isOpen' = TRUE
                   /\ UNCHANGED << highlightedIndex, internalValue, onChangeCalls >>
         [] key = "Escape" ->
              /\ isOpen' = FALSE
              /\ UNCHANGED << highlightedIndex, internalValue, onChangeCalls >>
         [] key = "ArrowDown" ->
              /\ IF ~isOpen
                 THEN isOpen' = TRUE /\ UNCHANGED highlightedIndex
                 ELSE /\ highlightedIndex' =
                            (IF highlightedIndex < Len(filteredOptions) - 1
                             THEN highlightedIndex + 1 ELSE highlightedIndex)
                      /\ UNCHANGED isOpen
              /\ UNCHANGED << internalValue, onChangeCalls >>
         [] key = "ArrowUp" ->
              /\ highlightedIndex' = (IF highlightedIndex > 0 THEN highlightedIndex - 1 ELSE 0)
              /\ UNCHANGED << isOpen, internalValue, onChangeCalls >>
    /\ UNCHANGED << chartVars, pickerVars, maxSelections >>

\* defaultValue: an array of at most maxSelections option values
DefaultValues(m) == UNION {[1..n -> 1..MaxOptions] : n \in 0..m}

SelectInit ==
    /\ chart = "MultiSelect"
    /\ NoChart
    /\ NoPicker
    /\ maxSelections \in 1..MaxOptions
    /\ internalValue \in DefaultValues(maxSelections)
    /\ isOpen = FALSE
    /\ highlightedIndex = 0 - 1
    /\ onChangeCalls = 0

SelectNext ==
    \/ SelectToggle
    \/ \E index \in 0..(MaxOptions - 1) : OptionEnter(index)
    \/ \E v \in 1..MaxOptions : OptionClick(v)
    \/ \E v \in 1..MaxOptions : RemoveChip(v)
    \/ Clear
    \/ \E key \in Keys : KeyDown(key)

SelectSpec == SelectInit /\ [][SelectNext]_vars

-----------------------------------------------------------------------------
(* DateTimePicker without a value prop.  A Date is its local year, month     *)
(* (from 0), day, hours and minutes; the calendar shows the years from       *)
(* BaseYear on, MaxYears of them.                                            *)

BaseYear == 2024
MaxYears == 1

Years == BaseYear..(BaseYear + MaxYears - 1)

\* new Date(): the time the handlers read
Today == [year |-> BaseYear, month |-> 5, day |-> 15, hours |-> 10, minutes |-> 5]

IsLeap(y) == (y % 4 = 0 /\ y % 100 # 0) \/ y % 400 = 0

\* daysInMonth = new Date(year, month + 1, 0).getDate()
daysInMonth(y, m) ==
    IF m = 1 THEN (IF IsLeap(y) THEN 29 ELSE 28)
    ELSE IF m \in {3, 5, 8, 10} THEN 30 ELSE 31

\* new Date(year, month, day) for a month that may lie outside 0..11 by one
DateOf(y, m, d) ==
    [year |-> IF m < 0 THEN y - 1 ELSE IF m > 11 THEN y + 1 ELSE y,
     month |-> (m + 12) % 12, day |-> d, hours |-> 0, minutes |-> 0]

\* the minutes since the start of year 0 of a calendar of 31-day months:
\* earlier dates have the smaller number
Stamp(d) == (((d.year * 12 + d.month) * 31 + d.day) * 24 + d.hours) * 60 + d.minutes

\* handleDateClick(day): newDate
ClickedDate(day) ==
    LET newDate == DateOf(viewDate.year, viewDate.month, day)
    IN  IF selectedDate # NoDate /\ type # "date"
        THEN [newDate EXCEPT !.hours = selectedDate.hours, !.minutes = selectedDate.minutes]
        ELSE IF selectedDate = NoDate
        THEN [newDate EXCEPT !.hours = Today.hours, !.minutes = Today.minutes]
        ELSE newDate

\* handleTimeChange(changeType, val): d
TimeChanged(changeType, val) ==
    LET d == IF selectedDate # NoDate THEN selectedDate ELSE Today
        currentHours == d.hours
        current12Hour == IF currentHours % 12 = 0 THEN 12 ELSE currentHours % 12
    IN  CASE changeType = "hour12" ->
                [d EXCEPT !.hours = IF currentHours >= 12
                                    THEN (IF val = 12 THEN 12 ELSE val + 12)
                                    ELSE (IF val = 12 THEN 0 ELSE val)]
          [] changeType = "ampm" ->
                IF val = "AM" /\ currentHours >= 12
                THEN [d EXCEPT !.hours = IF current12Hour = 12 THEN 0 ELSE current12Hour]
                ELSE IF val = "PM" /\ currentHours < 12
                THEN [d EXCEPT !.hours = IF current12Hour = 12 THEN 12 ELSE current12Hour + 12]
                ELSE d
          [] changeType = "minute" -> [d EXCEPT !.minutes = val]

selectOnly == << internalValue, highlightedIndex, maxSelections, onChangeCalls >>

\* handleToggle: a click on the input
PickerToggle ==
    /\ chart = "DateTimePicker"
    /\ isOpen' = ~isOpen
    /\ UNCHANGED << chartVars, selectOnly, pickerVars >>

\* handleDateClick: a click on a day of the month in view
DateClick(day) ==
    /\ chart = "DateTimePicker" /\ isOpen /\ type # "time" /\ viewMode = "days"
    /\ day \in 1..daysInMonth(viewDate.year, viewDate.month)
    /\ selectedDate' = ClickedDate(day)
    /\ reported' = ClickedDate(day)
    /\ isOpen' = (IF type = "date" THEN FALSE ELSE isOpen)
    /\ UNCHANGED << chartVars, selectOnly, type, minDate, maxDate, viewDate, viewMode >>

\* navigateMonth(dir): the arrows beside the month
NavigateMonth(dir) ==
    /\ chart = "DateTimePicker" /\ isOpen /\ type # "time" /\ viewMode = "days"
    /\ LET newDate == DateOf(viewDate.year, viewDate.month + dir, 1)
       IN  /\ newDate.year \in Years
           /\ viewDate' = [year |-> newDate.year, month |-> newDate.month]
    /\ UNCHANGED << chartVars, selectOnly, isOpen, type, minDate, maxDate, viewMode,
                    selectedDate, reported >>

\* the header buttons: setViewMode('years'), or back to 'days' from 'years'
ViewModeClick ==
    /\ chart = "DateTimePicker" /\ isOpen /\ type # "time"
    /\ viewMode' = (IF viewMode = "years" THEN "days" ELSE "years")
    /\ UNCHANGED << chartVars, selectOnly, isOpen, type, minDate, maxDate, viewDate,
                    selectedDate, reported >>

\* handleYearSelect(year)
YearSelect(y) ==
    /\ chart = "DateTimePicker" /\ isOpen /\ type # "time" /\ viewMode = "years"
    /\ y \in Years
    /\ viewDate' = [year |-> y, month |-> viewDate.month]
    /\ viewMode' = "months"
    /\ UNCHANGED << chartVars, selectOnly, isOpen, type, minDate, maxDate,
                    selectedDate, reported >>

\* handleMonthSelect(monthIdx)
MonthSelect(monthIdx) ==
    /\ chart = "DateTimePicker" /\ isOpen /\ type # "time" /\ viewMode = "months"
    /\ monthIdx \in 0..11
    /\ viewDate' = [year |-> viewDate.year, month |-> monthIdx]
    /\ viewMode' = "days"
    /\ UNCHANGED << chartVars, selectOnly, isOpen, type, minDate, maxDate,
                    selectedDate, reported >>

\* handleTimeChange: a time wheel comes to rest on val
TimeChange(changeType, val) ==
    /\ chart = "DateTimePicker" /\ isOpen /\ type # "date"
    /\ selectedDate' = TimeChanged(changeType, val)
    /\ reported' = TimeChanged(changeType, val)
    /\ UNCHANGED << chartVars, selectOnly, isOpen, type, minDate, maxDate, viewDate,
                    viewMode >>

\* the days clicked, the wheel positions chosen
ClickDays == {1, 15, 28}
WheelStops ==
    {<< "hour12", 12 >>, << "minute", 30 >>, << "ampm", "AM" >>, << "ampm", "PM" >>}

PickerInit ==
    /\ chart = "DateTimePicker"
    /\ NoChart
    /\ isOpen = FALSE
    /\ internalValue = << >>
    /\ highlightedIndex = 0 - 1
    /\ maxSelections = 0
    /\ onChangeCalls = 0
    /\ type \in {"date", "datetime"}
    /\ minDate = [Today EXCEPT !.day = 10, !.hours = 0, !.minutes = 0]
    /\ maxDate = [Today EXCEPT !.day = 20, !.hours = 23, !.minutes = 59]
    /\ viewDate = [year |-> Today.year, month |-> Today.month]
    /\ viewMode = "days"
    /\ selectedDate = NoDate
    /\ reported = NoDate

PickerNext ==
    \/ PickerToggle
    \/ \E day \in ClickDays : DateClick(day)
    \/ \E dir \in {0 - 1, 1} : NavigateMonth(dir)
    \/ ViewModeClick
    \/ \E y \in Years : YearSelect(y)
    \/ \E monthIdx \in 0..11 : MonthSelect(monthIdx)
    \/ \E stop \in WheelStops : TimeChange(stop[1], stop[2])

PickerSpec == PickerInit /\ [][PickerNext]_vars

-----------------------------------------------------------------------------
(* Properties *)

IsIndexOf(a, n) == IsFinite(a) /\ a.d = 1 /\ 0 <= a.n /\ a.n <= n - 1

\* C1: in AreaChart, for non-empty data and any legend position, while the
\* pointer rests exactly on the column of data index k the crosshair is
\* snapped to index k and drawn at the x of point k.
C1_SnapsToColumn ==
    (chart = "Area" /\ Len(data) > 0 /\ pointer.over) =>
        \A k \in 0..(Len(data) - 1) :
            pointer.x = ColumnX(k) =>
                /\ crosshair.visible
                /\ crosshair.index = Num(k)
                /\ crosshair.x = ColumnX(k)

\* C2: the index the AreaChart and BarChart mouse-move handlers snap to is an
\* integer in [0, n-1], wherever the pointer is, for non-empty data of n points.
C2_SnapInRange ==
    /\ (chart = "Area" /\ crosshair.visible) => IsIndexOf(crosshair.index, Len(data))
    /\ (chart = "Bar" /\ hoveredBarIndex # NoBar) => IsIndexOf(hoveredBarIndex, Len(data))

\* the handler ran with the pointer beyond the last column or before the first
\* bar, where the rounded index falls outside [0, n-1]
C2_Clamped ==
    \/ /\ chart = "Area" /\ Len(data) >= 2 /\ pointer.over
       /\ JLt(ColumnX(Len(data) - 1), JAdd(pointer.x, Num(svgLeft)))
       /\ crosshair.index = Num(Len(data) - 1)
    \/ /\ chart = "Bar" /\ ~isHorizontal /\ Len(data) >= 2 /\ pointer.over
       /\ pointer.x = Num(chartX) /\ svgLeft = 0
       /\ hoveredBarIndex = Zero

\* C3: in Area, Bar, Pie and Radar, from a pointer-leave until the next
\* pointer-move the hover state is cleared: no crosshair, no hovered bar,
\* slice or point, no tooltip, whatever frames and legend toggles came between.
C3_ClearedAfterLeave ==
    (chart \in LegendCharts /\ ~pointer.over) =>
        /\ ~crosshair.visible
        /\ hoveredBarIndex = NoBar
        /\ hoveredIndex = Null
        /\ hoveredPoint = << >>
        /\ ~tooltip.visible

\* the pointer has been over the chart and has left it; since the mount a
\* legend entry was toggled off and a frame has run
C3_LeftThenToggled ==
    /\ chart \in {"Pie", "Radar"}
    /\ ~pointer.over /\ tooltip # NoTooltip
    /\ hiddenSeries # {}
    /\ now > 0

\* C4: once a chart is unmounted, no frame callback and no timer of it is pending.
C4_UnmountCancels ==
    ~mounted => (rafQueue = << >> /\ frameQueue = << >> /\ ~timer)

\* C5: in Area, Pie, Radar and Radial, between one run of the [animate, data]
\* effect and the next, each value passed to setAnimationProgress is at least
\* the value passed before it.
C5_WritesNeverDecrease ==
    [][(chart \in FrameCharts /\ reveal' = reveal
            /\ lastWrite # Undefined /\ lastWrite' # Undefined)
        => JLe(lastWrite, lastWrite')]_vars

\* C6: with animate on, when the data changes after the reveal has completed,
\* animationProgress is 0 at some moment before the new reveal writes 1.
C6_DataChangeRestartsAtZero ==
    (mounted /\ animate /\ settled /\ lastWrite = One) => sawZero

\* C7: while the animate prop is false, animationProgress is 1.
C7_NoAnimationMeansDrawn ==
    (mounted /\ ~animate) => animationProgress = One

\* C8: with animate on and no prop change, under fair delivery of frames and
\* timers, animationProgress starts at 0, eventually is 1, and whenever it is
\* 1 no frame callback and no timer is pending.
C8_RevealCompletes ==
    /\ animationProgress = Zero
    /\ <>(animationProgress = One)
    /\ [](animationProgress = One =>
            (rafQueue = << >> /\ frameQueue = << >> /\ ~timer))

\* a frame-driven reveal has run to its end
C8_Completed ==
    /\ chart \in FrameCharts /\ animate
    /\ now > 0
    /\ animationProgress = One
    /\ rafQueue = << >> /\ frameQueue = << >>

\* C9: in a stacked AreaChart with at least 2 series, at least 2 points and an
\* interactive legend, whatever series are hidden, the render computes the
\* area path of every visible series without throwing.
C9_StackedAreaRenders ==
    (mounted /\ chart = "Area" /\ variant = "stacked" /\ Len(yKeys) >= 2
        /\ Len(data) >= 2 /\ legendInteractive)
    => ~RenderThrows

\* C10: with an empty data array every chart renders without throwing, plots
\* no shape, and puts no NaN into a coordinate or a label.
C10_EmptyDataRenders ==
    (mounted /\ Len(data) = 0) =>
        /\ ~RenderThrows
        /\ PlottedShapes = 0
        /\ \A v \in EmittedNumbers : ~IsNaN(ToNum(v))

\* a series of an Area chart that is drawn
IsDrawn(ki) == ki \in 1..Len(yKeys) /\ ki \notin hiddenSeries

\* C11: for data of exactly one point, AreaChart and SparklineChart map the
\* point to a finite x at the position of index 0.
C11_SinglePointAtIndexZero ==
    (mounted /\ Len(data) = 1) =>
        /\ chart = "Area" =>
              \A ki \in 1..Len(yKeys) :
                  IsDrawn(ki) => allPoints[ki].points[1].x = Num(chartX)
        /\ chart = "Sparkline" => SparkPoints[1].x = Zero

\* C12: for non-empty data whose visible values are all zero, every point,
\* bar length, radar radius and axis tick coordinate that Area, Bar, Radar and
\* Sparkline compute is a finite number.
C12_ZeroRangeIsFinite ==
    (mounted /\ Len(data) > 0 /\ ZeroRange) =>
        \A v \in PlottedCoordinates \cup TickCoordinates : IsFinite(ToNum(v))

\* an item of the data lacks the field the chart reads
HasMissing == \E i \in 1..Len(data) : data[i][1] = Undefined

\* the scale has something to measure: a positive total (Pie), a value above 0
ScaleDefined == IF chart = "Pie" THEN JLt(Zero, total) ELSE ~ZeroRange

\* C13: a data item whose field is missing counts as 0 wherever it is read:
\* it puts no NaN into a coordinate, an angle or a percentage of any chart.
C13_MissingReadsAsZero ==
    (mounted /\ HasMissing /\ ScaleDefined) =>
        \A v \in PlottedCoordinates \cup TickCoordinates \cup PieNumbers :
            ~IsNaN(ToNum(v))

\* C14: in AreaChart and BarChart, for non-empty data of non-negative numbers
\* that are not all 0 and any set of hidden series, maxValue is at least every
\* plotted value (the visible sum in a stack) and every drawn point or bar top
\* lies inside the plot rectangle along the value axis.
C14_PlotStaysInside ==
    (mounted /\ chart \in {"Area", "Bar"} /\ Len(data) > 0 /\ ~HasMissing /\ ~ZeroRange) =>
        /\ \A v \in PlottedValues : JLe(v, maxValue)
        /\ \A o \in PlotOffsets : JLe(Zero, o) /\ JLe(o, Num(PlotExtent))

\* the keys of the visible series before position ki
KeysBefore(ki) ==
    LET before == SelectSeq(visibleSeries, LAMBDA k : k < ki)
    IN  [j \in 1..Len(before) |-> yKeys[before[j]]]

\* C15: in a stacked AreaChart, at every data index and for every set of
\* hidden series, the stackedBase of a visible series is the sum of the raw
\* values (missing read as 0) of the visible series before it, and the topmost
\* visible series stands at the sum of all visible values.
C15_StackedBaseIsVisibleSum ==
    (mounted /\ chart = "Area" /\ isStacked) =>
        \A i \in 1..Len(data) :
            /\ \A ki \in Range(visibleSeries) :
                  allPoints[ki].points[i].stackedBase = RowSum(data[i], KeysBefore(ki))
            /\ Len(visibleSeries) > 0 =>
                  LET top == allPoints[visibleSeries[Len(visibleSeries)]].points[i]
                  IN  JAdd(top.stackedBase, top.value) = RowSum(data[i], visibleYKeys)

\* a stacked chart whose first series is hidden while it has a value above 0
\* and whose second series is drawn
C15_FirstSeriesHidden ==
    /\ mounted /\ chart = "Area" /\ isStacked
    /\ hiddenSeries = {1}
    /\ \E i \in 1..Len(data) : JLt(Zero, OrZero(data[i][1]))

\* the scale maximum of the chart in use
ScaleMax == IF chart = "Radar" THEN RadarMaxValue ELSE maxValue

\* the same maximum taken over the visible series alone (Math.max of no
\* values where every series is hidden)
VisibleMax ==
    CASE chart = "Area" ->
            JMul(JMaxOf(IF isStacked THEN RowSums(visibleYKeys)
                        ELSE FlatValues(visibleYKeys)), Headroom)
      [] chart = "Bar" ->
            JMaxOf(IF variant = "stacked" THEN RowSums(visibleYKeys)
                   ELSE FlatValues(visibleYKeys))
      [] OTHER ->
            JMaxOf(Concat([i \in 1..Len(data) |->
                      IF i \in hiddenSeries THEN << >>
                      ELSE [c \in 1..Len(categories) |-> OrZero(data[i][categories[c]])]]))

\* C16: after any legend toggles in AreaChart, BarChart and RadarChart the
\* scale maximum is the one computed from the visible series alone, for every
\* hidden set, the one that hides every series included.
C16_ScaleFromVisibleOnly ==
    (mounted /\ chart \in {"Area", "Bar", "Radar"} /\ Len(data) > 0) =>
        ScaleMax = VisibleMax

\* the legend entries without their inactive flags
LegendSlots == [i \in 1..Len(legendItems) |-> << legendItems[i].color, legendItems[i].label >>]

\* the colour of every series (slice) that is drawn
DrawnColors == [i \in DrawnSeries |-> SeriesColor(i)]

\* C17: a legend toggle changes neither the number, order and colours of the
\* legend entries nor the colour of any series or slice that stays drawn.
C17_TogglesKeepColours ==
    [][/\ LegendSlots' = LegendSlots
       /\ \A i \in DrawnSeries \cap DrawnSeries' : DrawnColors'[i] = DrawnColors[i]]_vars

\* the first of several series (slices) has been toggled off and a later one
\* is still drawn
C17_EarlierSeriesHidden ==
    /\ mounted /\ chart \in LegendCharts
    /\ 1 \in hiddenSeries
    /\ \E i \in DrawnSeries : i > 1

\* y lies between a and b, the two included
Between(y, a, b) == (JLe(a, y) /\ JLe(y, b)) \/ (JLe(b, y) /\ JLe(y, a))

\* the values of the first series, as integers
FirstValues == [i \in 1..Len(data) |-> data[i][1].n]

\* C18: in the curved AreaChart with every point revealed, for values that
\* rise or fall strictly over at least 3 points, the path has one cubic
\* segment between each two consecutive points and both control points of the
\* segment lie between the y of its two end points.
C18_CurveStaysBetween ==
    (mounted /\ chart = "Area" /\ variant = "curved" /\ Len(yKeys) = 1
        /\ animationProgress = One /\ Len(data) >= 3 /\ ~HasMissing
        /\ StrictlyMonotone(FirstValues)) =>
        LET pts == allPoints[1].points
            path == generateLinePath(pts)
        IN  /\ Len(path) = Len(pts)
            /\ \A i \in 1..(Len(pts) - 1) :
                  /\ path[i + 1].c = "C"
                  /\ Between(path[i + 1].a[2], pts[i].y, pts[i + 1].y)
                  /\ Between(path[i + 1].a[4], pts[i].y, pts[i + 1].y)

\* a reveal has run to its end on a curve whose steps differ in height
C18_UnevenCurveRevealed ==
    /\ chart = "Area" /\ variant = "curved" /\ animate /\ now > 0
    /\ animationProgress = One
    /\ Len(data) >= 3 /\ StrictlyMonotone(FirstValues)
    /\ FirstValues[2] - FirstValues[1] # FirstValues[3] - FirstValues[2]

\* the slices not hidden, in data order
VisibleSlices == SelectSeq([i \in 1..Len(data) |-> i], LAMBDA i : i \notin hiddenSeries)

\* C19: in PieChart at progress 1 with a positive visible total, the visible
\* slices in data order partition the sweep: the first starts at -90 degrees
\* (-180 for semi), each ends where the next visible one starts, the last ends
\* at the end of the sweep, each span is value/total of 360 degrees (180 for
\* semi), and the percentages sum to 100.
C19_SlicesPartitionSweep ==
    (mounted /\ chart = "Pie" /\ animationProgress = One /\ JLt(Zero, total)) =>
        LET vs == VisibleSlices
            n == Len(vs)
        IN  /\ n > 0
            /\ slices[vs[1]].startAngle = PieStartAngle
            /\ \A k \in 1..(n - 1) : slices[vs[k]].endAngle = slices[vs[k + 1]].startAngle
            /\ slices[vs[n]].endAngle = JAdd(PieStartAngle, PieTotalAngle)
            /\ \A k \in 1..n :
                  JSub(slices[vs[k]].endAngle, slices[vs[k]].startAngle)
                      = JMul(JDiv(OrZero(data[vs[k]][1]), total), PieTotalAngle)
            /\ SeqSum([k \in 1..n |-> slices[vs[k]].percentage]) = Num(100)

\* two equal slices: the first spans [-90, 90), the second [90, 270)
C19_TwoEqualSlices ==
    /\ mounted /\ chart = "Pie" /\ variant = "default" /\ animationProgress = One
    /\ Len(data) = 2 /\ hiddenSeries = {}
    /\ data[1][1] = data[2][1] /\ JLt(Zero, OrZero(data[1][1]))
    /\ slices[1].startAngle = Num(0 - 90) /\ slices[1].endAngle = Num(90)
    /\ slices[2].startAngle = Num(90) /\ slices[2].endAngle = Num(270)

\* the total a PieChart would have with slice i left out of the data
TotalWithout(i) ==
    SeqSum([j \in 1..Len(data) |->
              IF j = i \/ j \in hiddenSeries THEN Zero ELSE OrZero(data[j][1])])

\* C20: in PieChart, after any legend toggles, every hidden slice has
\* startAngle = endAngle, is not among the slices rendered as hoverable paths,
\* and adds nothing to the total that the visible slices' percentages and
\* angles are computed from.
C20_HiddenSlicesTakeNothing ==
    (mounted /\ chart = "Pie") =>
        \A i \in 1..Len(data) : i \in hiddenSeries =>
            /\ slices[i].startAngle = slices[i].endAngle
            /\ i \notin RenderedSlices
            /\ ~TargetRendered(<< i >>)
            /\ total = TotalWithout(i)
            /\ \A j \in 1..Len(data) : j \notin hiddenSeries =>
                  /\ slices[j].percentage
                        = (IF JLt(Zero, TotalWithout(i))
                           THEN JMul(JDiv(OrZero(data[j][1]), TotalWithout(i)), Num(100))
                           ELSE Zero)
                  /\ JSub(slices[j].endAngle, slices[j].startAngle)
                        = (IF JLt(Zero, TotalWithout(i))
                           THEN JMul(JMul(JDiv(OrZero(data[j][1]), TotalWithout(i)),
                                          PieTotalAngle), animationProgress)
                           ELSE Zero)

\* a slice of positive value was hidden by a toggle next to a visible one
C20_PositiveSliceHidden ==
    /\ mounted /\ chart = "Pie" /\ Len(data) = 2 /\ hiddenSeries = {1}
    /\ JLt(Zero, OrZero(data[1][1])) /\ JLt(Zero, OrZero(data[2][1]))

\* a value on BarChart's vertical scale at the current progress
ScaledHeight(v) == JMul(JMul(JDiv(v, maxValue), Num(chartHeight)), animationProgress)

StackedBar == chart = "Bar" /\ variant = "stacked" /\ isMultiSeries

TooltipPlaced ==
    tooltip.visible /\ position = Placed(tooltip.x, tooltip.y, layout)

CentredLeftEdge == JSub(JAdd(layout.containerLeft, tooltip.x), Half(layout.tooltipWidth))
CentredRightEdge == JAdd(JAdd(layout.containerLeft, tooltip.x), Half(layout.tooltipWidth))

\* C22: a placed ChartTooltip not wider than the window has its left edge at
\* 0 or more and its right edge at the window's width or less; one that,
\* centred on the anchor, would pass the right edge is moved left by what
\* would pass it, and likewise at the left edge.
C22_TooltipInsideViewport ==
    (TooltipPlaced /\ JLe(layout.tooltipWidth, layout.viewportWidth)) =>
        /\ JLe(Zero, TooltipLeftEdge)
        /\ JLe(TooltipRightEdge, layout.viewportWidth)
        /\ JLt(layout.viewportWidth, CentredRightEdge) =>
              TooltipRightEdge = layout.viewportWidth
        /\ JLt(CentredLeftEdge, Zero) => TooltipLeftEdge = Zero

\* the hidden set with exactly entry i's membership flipped
Flipped(h, i) == (h \ {i}) \cup ({i} \ h)

\* C23: with legendInteractive on, a click on legend entry i flips exactly
\* series i in the chart's hidden set and leaves every other series as it
\* was, so a second click on the same entry gives the first set back; with
\* legendInteractive off a click never changes the hidden set.
C23_ClickFlipsOneSeries ==
    /\ [](\A i \in LegendEntries :
              Toggled(Toggled(hiddenSeries, i), i) = hiddenSeries)
    /\ [][\A i \in 1..MaxItems : LegendToggle(i) =>
              hiddenSeries' = (IF legendInteractive THEN Flipped(hiddenSeries, i)
                               ELSE hiddenSeries)]_vars

\* one series hidden and another shown again by clicks
C23_HiddenAfterClicks ==
    /\ mounted /\ chart \in LegendCharts /\ legendInteractive
    /\ hiddenSeries = {2} /\ hiddenItems = {2}

\* C28: in every reachable state of an interactive chart, also after the
\* ChartLegend was mounted anew by a change of legendPosition between clicks,
\* legend entry i is shown dimmed exactly if series i is in the chart's hidden
\* set, and the second argument of onToggle is true exactly if the series is
\* visible after the click.
C28_LegendMatchesHiddenSet ==
    /\ []((alive /\ chart \in LegendCharts /\ shouldShowLegend /\ legendInteractive) =>
              \A i \in LegendEntries : isHidden(i) <=> i \in hiddenSeries)
    /\ [][\A i \in 1..MaxItems : (LegendToggle(i) /\ legendInteractive) =>
              (ToggleActive(i) <=> i \notin hiddenSeries')]_vars

\* the option the Enter key would select
EnterTarget == filteredOptions[highlightedIndex + 1]

\* C24: an uncontrolled MultiSelect with maxSelections = m >= 1 and a
\* defaultValue of at most m values never holds more than m selected values,
\* whatever options are clicked, selected with Enter, removed or cleared; and
\* a click or Enter on an unselected option at the limit leaves the selection
\* as it is and does not call onChange.
C24_SelectionsWithinLimit ==
    /\ [](chart = "MultiSelect" => Len(internalValue) <= maxSelections)
    /\ [][(chart = "MultiSelect" /\ Len(internalValue) >= maxSelections) =>
            /\ \A v \in 1..MaxOptions :
                  (OptionClick(v) /\ ~Includes(internalValue, v)) =>
                      UNCHANGED << internalValue, onChangeCalls >>
            /\ (KeyDown("Enter") /\ EnterSelects /\ ~Includes(internalValue, EnterTarget)) =>
                      UNCHANGED << internalValue, onChangeCalls >>
            /\ onChangeCalls' # onChangeCalls => Len(internalValue') < Len(internalValue)]_vars

\* the limit is reached by selections, and an unselected option is highlighted
C24_AtLimitAfterSelecting ==
    /\ chart = "MultiSelect" /\ maxSelections = 2 /\ Len(internalValue) = 2
    /\ onChangeCalls >= 2
    /\ EnterSelects /\ ~Includes(internalValue, EnterTarget)

\* d is not earlier than minDate and not later than maxDate
InRange(d) == Stamp(minDate) <= Stamp(d) /\ Stamp(d) <= Stamp(maxDate)

\* C25: after any day clicks, month and year navigation and time wheel
\* changes, the date DateTimePicker holds as selected and the date it last
\* passed to onChange are not earlier than minDate nor later than maxDate.
C25_SelectedWithinMinMax ==
    chart = "DateTimePicker" =>
        /\ selectedDate # NoDate => InRange(selectedDate)
        /\ reported # NoDate => InRange(reported)

\* the commands of the area path of series ki after its line path: the
\* closing edge and the final Z
ClosingEdge(ki) ==
    LET path == generateAreaPath(allPoints[ki].points, prevPoints(ki))
        line == generateLinePath(allPoints[ki].points)
    IN  SubSeq(path, Len(line) + 1, Len(path))

\* C26: in the stacked AreaChart, where the areas can be drawn, the closing
\* edge of every visible series above the first runs from the last revealed
\* point back to the first and lies, at each data index, at the y of the
\* series' own stackedBase there, the cumulative value of the series below.
C26_ClosingEdgeAtOwnBase ==
    (mounted /\ chart = "Area" /\ isStacked /\ ~RenderThrows /\ ~ZeroRange) =>
        \A ki \in Range(visibleSeries) :
            LET pts == allPoints[ki].points
                vis == Slice(pts, VisibleCount(Len(pts)))
                n == Len(vis)
                edge == ClosingEdge(ki)
            IN  (ki > 1 /\ Len(pts) >= 2) =>
                    /\ Len(edge) = n + 1
                    /\ edge[n + 1].c = "Z"
                    /\ \A j \in 1..n :
                          edge[j].a = << vis[n + 1 - j].x, ValueY(vis[n + 1 - j].stackedBase) >>

\* C27: in every reachable state of AreaChart where the crosshair is visible,
\* crosshair.index is below the current data length, and crosshair.x and the
\* highlighted points are those of that index under the current data, hidden
\* set and layout, also when the props changed after the last pointer move.
C27_CrosshairMatchesProps ==
    (chart = "Area" /\ alive /\ crosshair.visible) =>
        /\ IsIndexOf(crosshair.index, Len(data))
        /\ crosshair.x = SnapX(crosshair.index)
        /\ crosshair.points = CrosshairPoints(crosshair.index.n + 1)

\* the hover state of the charts
hoverState == << crosshair, tooltip, hoveredBarIndex, hoveredIndex, hoveredPoint >>

\* C29: the hover state is changed by pointer events only: a step that
\* changes the crosshair, a hovered index or the tooltip is no frame, timer
\* or legend step and leaves animationProgress and the hidden set as they
\* are, and so does every step that moves the pointer.
C29_HoverChangedByPointerOnly ==
    [][/\ hoverState' # hoverState =>
              UNCHANGED << animationProgress, hiddenSeries, hiddenItems, rafQueue,
                           frameQueue, timer, now, lastWrite >>
       /\ pointer' # pointer => UNCHANGED << animationProgress, hiddenSeries >>]_vars

\* the crosshair still shows a series that a toggle hid after the pointer
\* moved, while the reveal went on
C29_HoverKeptOverToggle ==
    /\ chart = "Area" /\ alive /\ crosshair.visible /\ now > 0
    /\ Len(crosshair.points) > Len(visibleSeries)

\* the points of the only series of a curved AreaChart
CurvePoints == allPoints[1].points

\* the least integer that is at least n * animationProgress, and at least 1
CeilOfShare(n) ==
    CHOOSE c \in 1..(n + 1) :
        /\ JLe(JMul(Num(n), animationProgress), Num(c))
        /\ c > 1 => JLt(Num(c - 1), JMul(Num(n), animationProgress))

\* C30: in the curved AreaChart the revealed prefix of n > 0 points has
\* ceil(n * progress) points and at least 1; with fewer than 2 points
\* revealed the line path and the area path are empty, and with exactly 2
\* revealed the line path is one move and one line command to the two points.
C30_RevealedPrefixPaths ==
    (mounted /\ chart = "Area" /\ variant = "curved" /\ Len(yKeys) = 1
        /\ hiddenSeries = {} /\ Len(data) > 0) =>
        LET pts == CurvePoints
            revealed == Slice(pts, VisibleCount(Len(pts)))
            line == generateLinePath(pts)
            area == generateAreaPath(pts, << >>)
        IN  /\ Len(revealed) = CeilOfShare(Len(pts))
            /\ Len(revealed) < 2 => (line = << >> /\ area = << >>)
            /\ Len(revealed) = 2 =>
                  line = << Cmd("M", << pts[1].x, pts[1].y >>),
                            Cmd("L", << pts[2].x, pts[2].y >>) >>

\* a frame of the reveal has left exactly two of at least three points shown
C30_TwoOfSeveralRevealed ==
    /\ chart = "Area" /\ variant = "curved" /\ animate /\ now > 0
    /\ Len(data) >= 3
    /\ Len(Slice(CurvePoints, VisibleCount(Len(CurvePoints)))) = 2

=============================================================================
